---- MODULE Spec2Model ----
(***************************************************************************)
(* A model of src/bot.py (class TelegramBot): the membership gate, the     *)
(* rate limiter, the content repository, the ephemeral delivery scheduler  *)
(* and the admin wizards that feed them.                                   *)
(*                                                                         *)
(* Scheduling.  The Application is built with its defaults (bot.py:27),    *)
(* so updates are handled one after another: a handler runs to completion  *)
(* before the next update is dispatched, and each handler is one action.   *)
(* Only the coroutines started with asyncio.create_task (bot.py:604,       *)
(* bot.py:1406) run beside the handlers; each of their awaits is a step.   *)
(*                                                                         *)
(* Time is counted in ticks, TicksPerSecond of them to a second.           *)
(* datetime.isoformat / fromisoformat round-trip exactly, so a stored      *)
(* timestamp is the tick it was taken at.                                  *)
(***************************************************************************)
EXTENDS Integers, Sequences, FiniteSets, TLC

(* ---------------------------------------------------------------- *)
(* Program constants                                                *)
(* ---------------------------------------------------------------- *)
MAIN_ADMIN_ID == 1
FILE_DELETE_SECONDS == 15
SpamWindowSeconds == 2
SpamTriggerCount == 5
LockoutSeconds == 10
MinDeleteSeconds == 5
MaxDeleteSeconds == 30

(* ---------------------------------------------------------------- *)
(* Bounds of the model                                              *)
(* ---------------------------------------------------------------- *)
TicksPerSecond == 2
MaxTimeSeconds == 6
MaxDeliveries == 2
MaxFiles == 3

RateHorizonSeconds == 13
GateWaits == 2
RepoWaits == 1
MaxBroadcasts == 1

MaxTime == MaxTimeSeconds * TicksPerSecond
RateHorizon == RateHorizonSeconds * TicksPerSecond
SpamWindow == SpamWindowSeconds * TicksPerSecond
Lockout == LockoutSeconds * TicksPerSecond

(* ---------------------------------------------------------------- *)
(* Value universes                                                  *)
(* ---------------------------------------------------------------- *)
None == "None"                      \* Python None, also an absent dict key
UserIds == {1, 2}
Codes == {"c1", "c2"}               \* values secrets.token_urlsafe(6) may return
FileTypes == {"photo", "video"}
ChatIds == {-1001}
StrOfInt == [i \in ChatIds |-> "-1001"]     \* str(chat_id)
ChanKeys == {"@a", "-1001"}
MemberStatuses == {"member", "administrator", "creator"}
GwStatuses == MemberStatuses \cup {"left", "kicked", "error"}   \* "error": get_chat_member raises

VARIABLES
    now,                        \* datetime.now(timezone.utc), in ticks
    users,                      \* self.users
    admins,                     \* self.admins (its key set)
    files,                      \* self.files
    mandatory_channels,         \* self.mandatory_channels
    spam_control,               \* self.spam_control
    downloads,                  \* self.downloads
    user_channel_memberships,   \* self.user_channel_memberships
    user_data,                  \* context.user_data, per user
    tasks,                      \* coroutines started at bot.py:604
    next_message_id,            \* next message id the transport hands out
    deliveries,                 \* log: one entry per send_files_to_user call
    delete_attempts,            \* log: message id -> number of delete_message calls
    buttons,                    \* the callback buttons each user has been sent
    burst,                      \* each user's first run of closely spaced requests
    heard,                      \* each user's latest request and latest lockout answer
    detected_channels,          \* self.detected_channels (its key set)
    bot_admin_in,               \* the chats in which Telegram has the bot as an admin
    casts,                      \* the broadcast_message coroutines created so far
    last                        \* what the last handled update did

store == <<users, admins, files, mandatory_channels>>
rate == <<spam_control, burst, heard>>
gate == <<user_channel_memberships>>
chats == <<detected_channels, bot_admin_in, casts>>
sched == <<tasks, next_message_id, deliveries, delete_attempts, downloads>>
vars == <<now, users, admins, files, mandatory_channels, spam_control, downloads,
          user_channel_memberships, user_data, tasks, next_message_id, deliveries,
          delete_attempts, buttons, burst, heard, detected_channels, bot_admin_in,
          casts, last>>

(* ---------------------------------------------------------------- *)
(* Small helpers                                                    *)
(* ---------------------------------------------------------------- *)
Range(s) == {s[i] : i \in 1..Len(s)}
Min(a, b) == IF a < b THEN a ELSE b

\* int(x) of a non-negative quantity measured in ticks, as whole seconds
WholeSeconds(ticks) == ticks \div TicksPerSecond


(* ---------------------------------------------------------------- *)
(* Shapes of the stored values                                      *)
(* ---------------------------------------------------------------- *)
NoTime == -1                        \* None in a timestamp field

\* self.users[user_id]; known = FALSE stands for "user_id not in self.users".
\* username, first_name and last_seen are kept by the code and read by no decision.
NoUser == [known |-> FALSE, is_blocked |-> FALSE]
ActiveUser == [known |-> TRUE, is_blocked |-> FALSE]

\* self.spam_control[user_id]; NoSpam stands for "user_id not in self.spam_control".
\* A missing 'blocked_until' key and a None value read the same (.get is falsy).
NoSpam == [request_count |-> 0, last_request |-> NoTime, blocked_until |-> NoTime]

\* self.files[code]; NoBundle stands for "code not in self.files".
\* telegram_file_id and created_at are stored and read by no decision.
NoBundle == [files |-> <<>>, caption |-> None, delete_seconds |-> 0, admin_id |-> 0]

\* self.mandatory_channels[key]; NoChannel stands for "key not in the dict".
\* identifier is a str; id_is_int says the code holds it as an int (type 'chat_id').
\* chat_id = 0 stands for a missing 'chat_id' key (0 is falsy in the code as well).
\* display, invite_link and type only build the join buttons.
NoChannel == [identifier |-> None, id_is_int |-> FALSE, chat_id |-> 0,
              can_auto_verify |-> FALSE, button_text |-> None]

\* context.user_data of one user; None / <<>> / 0 / NoChannel stand for a missing key.
\* handle_admin_media appends right after creating temp_files, so a stored list is
\* never empty. shares holds the access codes whose stored 'files' value is the
\* very list object that temp_files names (bot.py:1475 stores the list, not a
\* copy); dropping the temp_files key ends the sharing.
EmptyData == [awaiting |-> None, temp_files |-> <<>>, caption |-> None,
              temp_channel |-> NoChannel, temp_channel_from_auto |-> NoChannel,
              target_user_id |-> 0, temp_user_file |-> None, shares |-> {}]

NoMemberships == [k \in ChanKeys |-> "none"]

is_admin(user_id) == user_id \in admins

IsBlocked(user_id) == users[user_id].known /\ users[user_id].is_blocked

(* ---------------------------------------------------------------- *)
(* RateLimiter: is_temp_blocked, check_spam                         *)
(* ---------------------------------------------------------------- *)
\* A is_temp_blocked that never blocks: the variant that shows what the
\* lockout property owes to the test of blocked_until.
is_temp_blocked_off(sc, t) == [spam |-> sc, blocked |-> FALSE, remaining |-> 0]

\* An is_temp_blocked that starts the lockout anew at every request made under
\* it: the variant that shows what the lockout's length owes to the bare return.
is_temp_blocked_extending(sc, t) ==
    IF sc # NoSpam /\ sc.blocked_until # NoTime
    THEN IF t < sc.blocked_until
         THEN [spam |-> [sc EXCEPT !.blocked_until = t + Lockout], blocked |-> TRUE,
               remaining |-> WholeSeconds(sc.blocked_until - t)]
         ELSE [spam |-> [sc EXCEPT !.blocked_until = NoTime, !.request_count = 0],
               blocked |-> FALSE, remaining |-> 0]
    ELSE [spam |-> sc, blocked |-> FALSE, remaining |-> 0]

\* is_temp_blocked at time t on the user's entry sc
is_temp_blocked(sc, t) ==
    IF sc # NoSpam /\ sc.blocked_until # NoTime
    THEN IF t < sc.blocked_until
         THEN [spam |-> sc, blocked |-> TRUE,
               remaining |-> WholeSeconds(sc.blocked_until - t)]
         ELSE [spam |-> [sc EXCEPT !.blocked_until = NoTime, !.request_count = 0],
               blocked |-> FALSE, remaining |-> 0]
    ELSE [spam |-> sc, blocked |-> FALSE, remaining |-> 0]

\* A check_spam whose window includes its end (<= for <): the variant that
\* shows what the window-reset property owes to the comparison.
check_spam_wide(sc, t) ==
    IF sc # NoSpam /\ t - sc.last_request <= SpamWindow
    THEN LET request_count == sc.request_count + 1 IN
         [spam |-> [request_count |-> request_count,
                    last_request |-> t,
                    blocked_until |-> IF request_count >= SpamTriggerCount
                                      THEN t + Lockout ELSE NoTime],
          is_spam |-> TRUE,
          wait |-> IF request_count >= SpamTriggerCount
                   THEN LockoutSeconds
                   ELSE WholeSeconds(SpamWindow - (t - sc.last_request))]
    ELSE [spam |-> [request_count |-> 1, last_request |-> t, blocked_until |-> NoTime],
          is_spam |-> FALSE, wait |-> 0]

\* A check_spam that locks only past the fifth rapid request (> for >=): the
\* variant that shows what the escalation property owes to the threshold.
check_spam_late(sc, t) ==
    IF sc # NoSpam /\ t - sc.last_request < SpamWindow
    THEN LET request_count == sc.request_count + 1 IN
         [spam |-> [request_count |-> request_count,
                    last_request |-> t,
                    blocked_until |-> IF request_count > SpamTriggerCount
                                      THEN t + Lockout ELSE NoTime],
          is_spam |-> TRUE,
          wait |-> IF request_count > SpamTriggerCount
                   THEN LockoutSeconds
                   ELSE WholeSeconds(SpamWindow - (t - sc.last_request))]
    ELSE [spam |-> [request_count |-> 1, last_request |-> t, blocked_until |-> NoTime],
          is_spam |-> FALSE, wait |-> 0]

\* A check_spam that rounds the waiting time up and leaves last_request as it
\* was: the variant that shows what the throttle property owes to int() and to
\* the assignment of now.
check_spam_rounding_up(sc, t) ==
    IF sc # NoSpam
    THEN LET time_diff == t - sc.last_request IN
         IF time_diff < SpamWindow
         THEN LET request_count == sc.request_count + 1 IN
              [spam |-> [request_count |-> request_count,
                         last_request |-> sc.last_request,
                         blocked_until |-> IF request_count >= SpamTriggerCount
                                           THEN t + Lockout ELSE NoTime],
               is_spam |-> TRUE,
               wait |-> IF request_count >= SpamTriggerCount
                        THEN LockoutSeconds
                        ELSE (SpamWindow - time_diff + TicksPerSecond - 1)
                                 \div TicksPerSecond]
         ELSE [spam |-> [request_count |-> 1, last_request |-> t, blocked_until |-> NoTime],
               is_spam |-> FALSE, wait |-> 0]
    ELSE [spam |-> [request_count |-> 1, last_request |-> t, blocked_until |-> NoTime],
          is_spam |-> FALSE, wait |-> 0]

\* A check_spam that locks at the fourth rapid request already: the variant
\* that shows what the counter property owes to the threshold of 5.
check_spam_hasty(sc, t) ==
    IF sc # NoSpam
    THEN LET time_diff == t - sc.last_request IN
         IF time_diff < SpamWindow
         THEN LET request_count == sc.request_count + 1 IN
              [spam |-> [request_count |-> request_count,
                         last_request |-> t,
                         blocked_until |-> IF request_count >= SpamTriggerCount - 1
                                           THEN t + Lockout ELSE NoTime],
               is_spam |-> TRUE,
               wait |-> IF request_count >= SpamTriggerCount - 1
                        THEN LockoutSeconds
                        ELSE WholeSeconds(SpamWindow - time_diff)]
         ELSE [spam |-> [request_count |-> 1, last_request |-> t, blocked_until |-> NoTime],
               is_spam |-> FALSE, wait |-> 0]
    ELSE [spam |-> [request_count |-> 1, last_request |-> t, blocked_until |-> NoTime],
          is_spam |-> FALSE, wait |-> 0]

\* check_spam at time t on the user's entry sc
check_spam(sc, t) ==
    IF sc # NoSpam
    THEN LET time_diff == t - sc.last_request IN
         IF time_diff < SpamWindow
         THEN LET request_count == sc.request_count + 1 IN
              [spam |-> [request_count |-> request_count,
                         last_request |-> t,
                         blocked_until |-> IF request_count >= SpamTriggerCount
                                           THEN t + Lockout ELSE NoTime],
               is_spam |-> TRUE,
               wait |-> IF request_count >= SpamTriggerCount
                        THEN LockoutSeconds
                        ELSE WholeSeconds(SpamWindow - time_diff)]
         ELSE [spam |-> [request_count |-> 1, last_request |-> t, blocked_until |-> NoTime],
               is_spam |-> FALSE, wait |-> 0]
    ELSE [spam |-> [request_count |-> 1, last_request |-> t, blocked_until |-> NoTime],
          is_spam |-> FALSE, wait |-> 0]

\* A rate-limit prologue without the is_admin test: the variant that shows what
\* the bypass property owes to the test.
AdmitEveryone(user_id, t) ==
    LET b == is_temp_blocked(spam_control[user_id], t) IN
    IF b.blocked
    THEN [spam |-> b.spam, outcome |-> "locked", wait |-> b.remaining]
    ELSE LET c == check_spam(b.spam, t) IN
         [spam |-> c.spam,
          outcome |-> IF ~c.is_spam THEN "allowed"
                      ELSE IF c.wait >= LockoutSeconds THEN "locked_now"
                      ELSE "throttled",
          wait |-> c.wait]

\* The prologue shared by handle_file_access, redownload_ and check_:
\* admins skip both calls; for the others is_temp_blocked runs first and
\* check_spam only when it did not block.
Admit(user_id, t) ==
    IF is_admin(user_id)
    THEN [spam |-> spam_control[user_id], outcome |-> "bypass", wait |-> 0]
    ELSE LET b == is_temp_blocked(spam_control[user_id], t) IN
         IF b.blocked
         THEN [spam |-> b.spam, outcome |-> "locked", wait |-> b.remaining]
         ELSE LET c == check_spam(b.spam, t) IN
              [spam |-> c.spam,
               outcome |-> IF ~c.is_spam THEN "allowed"
                           ELSE IF c.wait >= LockoutSeconds THEN "locked_now"
                           ELSE "throttled",
               wait |-> c.wait]

\* The run of requests a user opens with the first one ever rate-limited: calls
\* counts its requests while each comes less than the spam window after the one
\* before; the run is over (open = FALSE) at the first request that comes later,
\* or after SpamTriggerCount requests.  It is kept beside the program's own
\* counters and read by no handler.
NoBurst == [calls |-> 0, at |-> NoTime, open |-> TRUE]
Closed == [calls |-> 0, at |-> NoTime, open |-> FALSE]
Counted(b, t) ==
    IF ~b.open THEN b
    ELSE IF b.calls = 0 THEN [calls |-> 1, at |-> t, open |-> TRUE]
    ELSE IF t - b.at < SpamWindow /\ b.calls < SpamTriggerCount
         THEN [calls |-> b.calls + 1, at |-> t, open |-> TRUE]
    ELSE Closed

\* What a user's rate-limited requests have been so far: prev is the time of
\* the latest one, whatever its answer; told is the waiting time of the latest
\* lockout answer (the 10 of the request that set the lockout, or the remaining
\* time of a request made under it).  Kept beside the program's own counters
\* and read by no handler.
NoneHeard == [prev |-> NoTime, told |-> NoTime]
Heard(h, outcome, wait, t) ==
    [prev |-> t, told |-> IF outcome \in {"locked", "locked_now"} THEN wait ELSE h.told]

(* ---------------------------------------------------------------- *)
(* MembershipGate: check_membership, mark_user_joined_channel       *)
(* ---------------------------------------------------------------- *)
Configured == {k \in ChanKeys : mandatory_channels[k] # NoChannel}

\* chat_id = channel_info.get('chat_id') or channel_info.get('identifier')
TargetIsInt(ci) == ci.chat_id # 0 \/ ci.id_is_int
IntOfStr == [s \in {"-1001"} |-> -1001]
TargetChat(ci) == IF ci.chat_id # 0 THEN ci.chat_id ELSE IntOfStr[ci.identifier]

\* str(channel.get('chat_id') or channel.get('identifier'))
ChannelKey(ci) == IF ci.chat_id # 0 THEN StrOfInt[ci.chat_id] ELSE ci.identifier

\* can_auto_verify and chat_id and isinstance(chat_id, int)
AutoVerifiable(ci) == ci.can_auto_verify /\ TargetIsInt(ci)

\* A pass that drops a true record of a requirement it cannot ask the gateway
\* about: the variant that shows what the permanence of an asserted membership
\* owes to the 'already verified' branch.
CheckOneForgetful(rec, ci, status) ==
    IF AutoVerifiable(ci)
    THEN IF status = "error"
         THEN [rec |-> rec, unmet |-> rec # "true", called |-> TRUE]
         ELSE IF status \in MemberStatuses
              THEN [rec |-> "true", unmet |-> FALSE, called |-> TRUE]
              ELSE [rec |-> "false", unmet |-> TRUE, called |-> TRUE]
    ELSE [rec |-> IF rec = "true" THEN "false" ELSE rec, unmet |-> TRUE,
          called |-> FALSE]

\* A pass that takes a true record as final without asking the gateway: the
\* variant that shows what the recheck property owes to the second call.
CheckOneCached(rec, ci, status) ==
    IF rec = "true"
    THEN [rec |-> rec, unmet |-> FALSE, called |-> FALSE]
    ELSE IF AutoVerifiable(ci)
         THEN IF status = "error"
              THEN [rec |-> rec, unmet |-> TRUE, called |-> TRUE]
              ELSE IF status \in MemberStatuses
                   THEN [rec |-> "true", unmet |-> FALSE, called |-> TRUE]
                   ELSE [rec |-> "false", unmet |-> TRUE, called |-> TRUE]
         ELSE [rec |-> rec, unmet |-> TRUE, called |-> FALSE]

\* One pass of the loop body of check_membership for one channel: rec is the
\* user's record for the key, status the gateway's answer if it is asked.
CheckOne(rec, ci, status) ==
    IF rec = "true"
    THEN IF AutoVerifiable(ci)
         THEN IF status = "error"
              THEN [rec |-> rec, unmet |-> FALSE, called |-> TRUE]
              ELSE IF status \notin MemberStatuses
                   THEN [rec |-> "false", unmet |-> TRUE, called |-> TRUE]
                   ELSE [rec |-> rec, unmet |-> FALSE, called |-> TRUE]
         ELSE [rec |-> rec, unmet |-> FALSE, called |-> FALSE]
    ELSE IF AutoVerifiable(ci)
         THEN IF status = "error"
              THEN [rec |-> rec, unmet |-> TRUE, called |-> TRUE]
              ELSE IF status \in MemberStatuses
                   THEN [rec |-> "true", unmet |-> FALSE, called |-> TRUE]
                   ELSE [rec |-> "false", unmet |-> TRUE, called |-> TRUE]
         ELSE [rec |-> rec, unmet |-> TRUE, called |-> FALSE]

\* check_membership(user_id) with the gateway answering gw[chat] to each call.
\* The passes touch one key each, so the dict's iteration order does not show in
\* the result; not_joined is given as the set of keys of the list's entries.
check_membership(user_id, gw) ==
    LET m == user_channel_memberships[user_id]
        one(k) == CheckOne(m[k], mandatory_channels[k],
                           IF AutoVerifiable(mandatory_channels[k])
                           THEN gw[TargetChat(mandatory_channels[k])] ELSE "error")
    IN [memberships |-> [k \in ChanKeys |-> IF k \in Configured THEN one(k).rec ELSE m[k]],
        not_joined |-> {k \in Configured : one(k).unmet},
        calls |-> {k \in Configured : one(k).called},
        errors |-> {k \in Configured : one(k).called
                        /\ gw[TargetChat(mandatory_channels[k])] = "error"},
        members |-> {k \in Configured : one(k).called
                        /\ gw[TargetChat(mandatory_channels[k])] \in MemberStatuses},
        rechecked |-> {k \in Configured : one(k).called /\ m[k] = "true"},
        is_member |-> {k \in Configured : one(k).unmet} = {}]

\* A mark_user_joined_channel that records nothing: the variant that shows what
\* the trust-mode property owes to the recording.
MarkNothing(m, keys) == m

\* mark_user_joined_channel for every key of a set
MarkJoined(m, keys) == [k \in ChanKeys |-> IF k \in keys THEN "true" ELSE m[k]]


(* ---------------------------------------------------------------- *)
(* What a handled update is seen to do                              *)
(* ---------------------------------------------------------------- *)
\* op/user/code: the update; reply: the message the handler answers with;
\* outcome/wait: the rate limiter's answer; evaluated, not_joined, calls, errors:
\* whether check_membership ran, what it returned, which keys it asked the gateway
\* about, for which of them the gateway raised, for which it reported a member
\* status, and which of them it asked about although the record was true; marked: the keys passed to
\* mark_user_joined_channel; delivered: whether send_files_to_user was called;
\* recorded: how many entries the update appended to self.downloads; input: the
\* text of the update, where a claim is about it; target: the user id the
\* update names; step: the step a cancelled conversation was awaiting.
Obs == [op |-> "init", user |-> 0, code |-> None, reply |-> None, input |-> None,
        target |-> 0, step |-> None,
        outcome |-> None, wait |-> 0, evaluated |-> FALSE, not_joined |-> {},
        calls |-> {}, errors |-> {}, members |-> {}, rechecked |-> {},
        marked |-> {}, delivered |-> FALSE,
        recorded |-> 0]

See(op, user_id, reply) == [Obs EXCEPT !.op = op, !.user = user_id, !.reply = reply]

(* ---------------------------------------------------------------- *)
(* DeliveryScheduler: send_files_to_user and the deletion coroutine *)
(* ---------------------------------------------------------------- *)
MessageIds == 1..(MaxDeliveries * MaxFiles)

\* file_group.get('delete_seconds', FILE_DELETE_SECONDS)
DeleteSecondsOf(file_group) ==
    IF file_group.delete_seconds # 0 THEN file_group.delete_seconds
    ELSE FILE_DELETE_SECONDS

\* A coroutine that is handed one list kept for all deliveries, holding every
\* message id sent so far: the variant that shows what the independence of
\* overlapping deliveries owes to the list built inside send_files_to_user.
NewTaskSharing(chat_id, message_ids, delay_seconds, file_code) ==
    [chat_id |-> chat_id,
     message_ids |-> [i \in 1..(next_message_id + Len(message_ids) - 1) |-> i],
     wake |-> now + delay_seconds * TicksPerSecond, file_code |-> file_code,
     attempted |-> 0, failed |-> FALSE, prompts |-> 0, done |-> FALSE]

\* A coroutine that does not sleep before its deletions: the variant that shows
\* what the delay property owes to the sleep.
NewTaskNoSleep(chat_id, message_ids, delay_seconds, file_code) ==
    [chat_id |-> chat_id, message_ids |-> message_ids,
     wake |-> now, file_code |-> file_code,
     attempted |-> 0, failed |-> FALSE, prompts |-> 0, done |-> FALSE]

\* asyncio.create_task(schedule_message_deletion_and_send_buttons(...)): the
\* coroutine's arguments, the time its sleep ends, and its progress: attempted
\* counts the delete_message calls made, failed tells whether one of them raised,
\* prompts the prompt sends, done its end.
NewTask(chat_id, message_ids, delay_seconds, file_code) ==
    [chat_id |-> chat_id, message_ids |-> message_ids,
     wake |-> now + delay_seconds * TicksPerSecond, file_code |-> file_code,
     attempted |-> 0, failed |-> FALSE, prompts |-> 0, done |-> FALSE]

\* What the idx-th send_photo / send_video call of the loop carries (idx from
\* 1): the item's type, the bundle's caption text when the call's caption holds
\* it, and the number of seconds the expiry notice in the call's caption names,
\* 0 when the call is made with caption=None (bot.py:578-596).
SentItem(file_group, idx) ==
    LET caption_text == file_group.caption
        delete_seconds == DeleteSecondsOf(file_group)
        has_caption == idx = 1 \/ caption_text = None
    IN [file_type |-> file_group.files[idx].file_type,
        caption |-> IF idx = 1 THEN caption_text ELSE None,
        notice |-> IF has_caption THEN delete_seconds ELSE 0]

\* A send_files_to_user whose scheduling and download record sit in a finally
\* clause: they happen on every call, whatever was sent.
send_files_always_scheduling(user_id, file_code, sends) ==
    LET file_group == files[file_code]
        n == Len(file_group.files)
        sent == Min(sends, n)
        sent_message_ids == [i \in 1..sent |-> next_message_id + i - 1]
        raised == sends < n
        delete_seconds == DeleteSecondsOf(file_group)
    IN /\ next_message_id' = next_message_id + sent
       /\ tasks' = Append(tasks, NewTask(user_id, sent_message_ids,
                                         delete_seconds, file_code))
       /\ downloads' = Append(downloads, [file_code |-> file_code,
                                          user_id |-> user_id,
                                          downloaded_at |-> now])
       /\ deliveries' = Append(deliveries,
               [user_id |-> user_id, file_code |-> file_code,
                message_ids |-> sent_message_ids, raised |-> raised,
                items |-> [i \in 1..sent |-> SentItem(file_group, i)],
                at |-> now, delete_seconds |-> delete_seconds,
                task |-> Len(tasks) + 1])
       /\ UNCHANGED delete_attempts

\* A send_files_to_user that appends a download record inside its loop, once
\* per item sent: the variant that shows what the download-log property owes
\* to the single append after the loop.
send_files_recording_each(user_id, file_code, sends) ==
    LET file_group == files[file_code]
        n == Len(file_group.files)
        sent == Min(sends, n)
        sent_message_ids == [i \in 1..sent |-> next_message_id + i - 1]
        raised == sends < n
        delete_seconds == DeleteSecondsOf(file_group)
    IN /\ next_message_id' = next_message_id + sent
       /\ tasks' = IF ~raised /\ sent_message_ids # <<>>
                   THEN Append(tasks, NewTask(user_id, sent_message_ids,
                                              delete_seconds, file_code))
                   ELSE tasks
       /\ downloads' = downloads \o [i \in 1..sent |->
                                       [file_code |-> file_code, user_id |-> user_id,
                                        downloaded_at |-> now]]
       /\ deliveries' = Append(deliveries,
               [user_id |-> user_id, file_code |-> file_code,
                message_ids |-> sent_message_ids, raised |-> raised,
                items |-> [i \in 1..sent |-> SentItem(file_group, i)],
                at |-> now, delete_seconds |-> delete_seconds,
                task |-> IF ~raised /\ sent_message_ids # <<>>
                         THEN Len(tasks) + 1 ELSE 0])
       /\ UNCHANGED delete_attempts

\* send_files_to_user(user_id, self.files[file_code], file_code).  sends is the
\* number of send_photo / send_video calls the transport accepts before one
\* raises; with sends >= len(files) none raises.  A raise leaves the loop for the
\* except clause: the error text is sent, nothing is scheduled or recorded.
send_files_to_user(user_id, file_code, sends) ==
    LET file_group == files[file_code]
        n == Len(file_group.files)
        sent == Min(sends, n)
        sent_message_ids == [i \in 1..sent |-> next_message_id + i - 1]
        raised == sends < n
        delete_seconds == DeleteSecondsOf(file_group)
    IN /\ next_message_id' = next_message_id + sent
       /\ tasks' = IF ~raised /\ sent_message_ids # <<>>
                   THEN Append(tasks, NewTask(user_id, sent_message_ids,
                                              delete_seconds, file_code))
                   ELSE tasks
       /\ downloads' = IF ~raised
                       THEN Append(downloads, [file_code |-> file_code,
                                               user_id |-> user_id,
                                               downloaded_at |-> now])
                       ELSE downloads
       /\ deliveries' = Append(deliveries,
               [user_id |-> user_id, file_code |-> file_code,
                message_ids |-> sent_message_ids, raised |-> raised,
                items |-> [i \in 1..sent |-> SentItem(file_group, i)],
                at |-> now, delete_seconds |-> delete_seconds,
                task |-> IF ~raised /\ sent_message_ids # <<>>
                         THEN Len(tasks) + 1 ELSE 0])
       /\ UNCHANGED delete_attempts

\* A deletion loop without the try around delete_message: a call that raises
\* leaves the loop for the outer except clause, which ends the coroutine with no
\* further call and no prompt.
DeleteStepAborting(t, ok) ==
    /\ t \in 1..Len(tasks)
    /\ ~tasks[t].done
    /\ now >= tasks[t].wake
    /\ tasks[t].attempted < Len(tasks[t].message_ids)
    /\ LET message_id == tasks[t].message_ids[tasks[t].attempted + 1] IN
       /\ delete_attempts' = [delete_attempts EXCEPT ![message_id] = @ + 1]
       /\ tasks' = [tasks EXCEPT ![t].attempted = @ + 1,
                                 ![t].failed = @ \/ ~ok,
                                 ![t].done = ~ok]
    /\ last' = [See("delete_message", tasks[t].chat_id,
                    IF ok THEN "deleted" ELSE "delete_failed")
                EXCEPT !.code = tasks[t].file_code]
    /\ UNCHANGED <<now, store, rate, downloads, gate, chats, user_data,
                   next_message_id, deliveries, buttons>>

\* The coroutine after its sleep: one delete_message call per step, in the
\* list's order; ok = FALSE is a call that raises (caught at bot.py:296).
DeleteStep(t, ok) ==
    /\ t \in 1..Len(tasks)
    /\ ~tasks[t].done
    /\ now >= tasks[t].wake
    /\ tasks[t].attempted < Len(tasks[t].message_ids)
    /\ LET message_id == tasks[t].message_ids[tasks[t].attempted + 1] IN
       /\ delete_attempts' = [delete_attempts EXCEPT ![message_id] = @ + 1]
       /\ tasks' = [tasks EXCEPT ![t].attempted = @ + 1,
                                 ![t].failed = @ \/ ~ok]
    /\ last' = [See("delete_message", tasks[t].chat_id,
                    IF ok THEN "deleted" ELSE "delete_failed")
                EXCEPT !.code = tasks[t].file_code]
    /\ UNCHANGED <<now, store, rate, downloads, gate, chats, user_data,
                   next_message_id, deliveries, buttons>>

\* The coroutine after its loop: the send of the prompt with the redownload_
\* button, then its end; ok = FALSE is a send that raises (caught at bot.py:309).
\* A button, once sent, stays pressable: a user can hold any number of messages
\* carrying it, and an edit replaces the keyboard of one message only.
PromptStep(t, ok) ==
    /\ t \in 1..Len(tasks)
    /\ ~tasks[t].done
    /\ now >= tasks[t].wake
    /\ tasks[t].attempted = Len(tasks[t].message_ids)
    /\ tasks' = [tasks EXCEPT ![t].prompts = @ + 1, ![t].done = TRUE]
    /\ buttons' = IF ok
                  THEN [buttons EXCEPT ![tasks[t].chat_id] =
                            @ \cup {<<"redownload", tasks[t].file_code>>}]
                  ELSE buttons
    /\ last' = [See("prompt", tasks[t].chat_id,
                    IF ok THEN "redownload_prompt" ELSE "prompt_failed")
                EXCEPT !.code = tasks[t].file_code]
    /\ UNCHANGED <<now, store, rate, downloads, gate, chats, user_data,
                   next_message_id, deliveries, delete_attempts>>

\* Time passes by d ticks, up to the horizon of the specification.
Tick(d, horizon) ==
    /\ now + d <= horizon
    /\ now' = now + d
    /\ last' = See("tick", 0, None)
    /\ UNCHANGED <<store, rate, gate, chats, user_data, sched, buttons>>


(* ---------------------------------------------------------------- *)
(* The three entry paths to a bundle                                *)
(* ---------------------------------------------------------------- *)
Refused == {"locked", "locked_now", "throttled"}

\* What an entry path decides before any send: the user's new rate-limit entry
\* and membership records, the reply when it does not deliver, and deliver.
Decision(a, m) ==
    [spam |-> a.spam, outcome |-> a.outcome, wait |-> a.wait, memberships |-> m,
     reply |-> a.outcome, evaluated |-> FALSE, not_joined |-> {}, calls |-> {},
     errors |-> {}, members |-> {}, rechecked |-> {}, marked |-> {},
     deliver |-> FALSE]

Evaluated(d, cm) ==
    [d EXCEPT !.memberships = cm.memberships, !.evaluated = TRUE,
              !.not_joined = cm.not_joined, !.calls = cm.calls, !.errors = cm.errors,
              !.members = cm.members, !.rechecked = cm.rechecked]

\* A handle_file_access without its look-up of the code in self.files: the
\* variant that shows what the not-found property owes to the look-up.
handle_file_access_unchecked(user_id, file_code, gw) ==
    LET a == Admit(user_id, now)
        d == Decision(a, user_channel_memberships[user_id])
    IN IF a.outcome \in Refused THEN d
       ELSE LET cm == check_membership(user_id, gw)
                e == Evaluated(d, cm)
            IN IF ~cm.is_member THEN [e EXCEPT !.reply = "join_prompt"]
               ELSE [e EXCEPT !.reply = "files", !.deliver = TRUE]

\* handle_file_access(update, context, file_code)
handle_file_access(user_id, file_code, gw) ==
    LET a == Admit(user_id, now)
        d == Decision(a, user_channel_memberships[user_id])
    IN IF a.outcome \in Refused THEN d
       ELSE IF files[file_code] = NoBundle THEN [d EXCEPT !.reply = "not_found"]
       ELSE LET cm == check_membership(user_id, gw)
                e == Evaluated(d, cm)
            IN IF ~cm.is_member THEN [e EXCEPT !.reply = "join_prompt"]
               ELSE [e EXCEPT !.reply = "files", !.deliver = TRUE]

\* A redownload_ branch without its check_membership call: the variant that
\* shows what the gate property owes to the call.
redownload_ungated(user_id, file_code, gw) ==
    LET a == Admit(user_id, now)
        d == Decision(a, user_channel_memberships[user_id])
    IN IF a.outcome \in Refused THEN d
       ELSE IF files[file_code] = NoBundle THEN [d EXCEPT !.reply = "not_found"]
       ELSE [d EXCEPT !.reply = "files", !.deliver = TRUE]

\* button_callback, data = "redownload_" + file_code
redownload(user_id, file_code, gw) ==
    LET a == Admit(user_id, now)
        d == Decision(a, user_channel_memberships[user_id])
    IN IF a.outcome \in Refused THEN d
       ELSE LET cm == check_membership(user_id, gw)
                e == Evaluated(d, cm)
            IN IF ~cm.is_member THEN [e EXCEPT !.reply = "join_prompt"]
               ELSE IF files[file_code] = NoBundle THEN [e EXCEPT !.reply = "not_found"]
               ELSE [e EXCEPT !.reply = "files", !.deliver = TRUE]

\* A check_ branch that goes on to the bundle although an automatic
\* verification failed: the variant that shows what the hard block owes to the
\* return at bot.py:1235.
check_joined_lenient(user_id, file_code, gw) ==
    LET a == Admit(user_id, now)
        d == Decision(a, user_channel_memberships[user_id])
    IN IF a.outcome \in Refused THEN d
       ELSE LET cm == check_membership(user_id, gw)
                auto_verify_failed ==
                    {k \in cm.not_joined : mandatory_channels[k].can_auto_verify}
                trust_based_channels == cm.not_joined \ auto_verify_failed
                marked == {ChannelKey(mandatory_channels[k]) : k \in trust_based_channels}
                e == [Evaluated(d, cm) EXCEPT
                        !.memberships = MarkJoined(cm.memberships, marked),
                        !.marked = marked]
            IN IF files[file_code] = NoBundle THEN [e EXCEPT !.reply = "not_found"]
               ELSE [e EXCEPT !.reply = "files", !.deliver = TRUE]

\* A check_ branch that records the trust-mode requirements only once it is
\* about to send: the variant that shows what the recording on a refused press
\* owes to mark_user_joined_channel being called inside the loop.
check_joined_marking_late(user_id, file_code, gw) ==
    LET a == Admit(user_id, now)
        d == Decision(a, user_channel_memberships[user_id])
    IN IF a.outcome \in Refused THEN d
       ELSE LET cm == check_membership(user_id, gw)
                auto_verify_failed ==
                    {k \in cm.not_joined : mandatory_channels[k].can_auto_verify}
                trust_based_channels == cm.not_joined \ auto_verify_failed
                marked == {ChannelKey(mandatory_channels[k]) : k \in trust_based_channels}
                e == Evaluated(d, cm)
            IN IF auto_verify_failed # {} THEN [e EXCEPT !.reply = "auto_failed"]
               ELSE IF files[file_code] = NoBundle THEN [e EXCEPT !.reply = "not_found"]
               ELSE [e EXCEPT !.reply = "files", !.deliver = TRUE,
                              !.memberships = MarkJoined(cm.memberships, marked),
                              !.marked = marked]

\* button_callback, data = "check_" + file_code  (the "I joined" button)
check_joined(user_id, file_code, gw) ==
    LET a == Admit(user_id, now)
        d == Decision(a, user_channel_memberships[user_id])
    IN IF a.outcome \in Refused THEN d
       ELSE LET cm == check_membership(user_id, gw)
                auto_verify_failed ==
                    {k \in cm.not_joined : mandatory_channels[k].can_auto_verify}
                trust_based_channels == cm.not_joined \ auto_verify_failed
                marked == {ChannelKey(mandatory_channels[k]) : k \in trust_based_channels}
                e == [Evaluated(d, cm) EXCEPT
                        !.memberships = MarkJoined(cm.memberships, marked),
                        !.marked = marked]
            IN IF auto_verify_failed # {} THEN [e EXCEPT !.reply = "auto_failed"]
               ELSE IF files[file_code] = NoBundle THEN [e EXCEPT !.reply = "not_found"]
               ELSE [e EXCEPT !.reply = "files", !.deliver = TRUE]

\* The effects of an entry path that decided d; sends as in send_files_to_user.
Access(op, user_id, file_code, d, sends) ==
    /\ d.deliver => Len(deliveries) < MaxDeliveries
    /\ spam_control' = [spam_control EXCEPT ![user_id] = d.spam]
    /\ burst' = IF d.outcome = "bypass" THEN burst
                ELSE [burst EXCEPT ![user_id] = Counted(@, now)]
    /\ heard' = IF d.outcome = "bypass" THEN heard
                ELSE [heard EXCEPT ![user_id] = Heard(@, d.outcome, d.wait, now)]
    /\ user_channel_memberships' =
            [user_channel_memberships EXCEPT ![user_id] = d.memberships]
    /\ UNCHANGED chats
    /\ IF d.deliver
       THEN send_files_to_user(user_id, file_code, sends)
       ELSE UNCHANGED sched
    /\ last' = [op |-> op, user |-> user_id, code |-> file_code, input |-> None,
                target |-> 0, step |-> None,
                reply |-> IF d.deliver /\ sends < Len(files[file_code].files)
                          THEN "send_error" ELSE d.reply,
                outcome |-> d.outcome, wait |-> d.wait, evaluated |-> d.evaluated,
                not_joined |-> d.not_joined, calls |-> d.calls, errors |-> d.errors,
                members |-> d.members, rechecked |-> d.rechecked,
                marked |-> d.marked, delivered |-> d.deliver,
                recorded |-> Len(downloads') - Len(downloads)]
    \* the join prompt carries the check_<code> button (bot.py:552, bot.py:1170)
    /\ buttons' = IF d.reply = "join_prompt"
                  THEN [buttons EXCEPT ![user_id] = @ \cup {<<"check", file_code>>}]
                  ELSE buttons

\* start_command; arg is context.args[0], or None for a bare /start
start_command(user_id, arg, gw, sends) ==
    /\ IF IsBlocked(user_id)
       THEN /\ last' = [See("start", user_id, "blocked") EXCEPT !.code = arg]
            /\ UNCHANGED <<users, rate, gate, chats, sched, buttons>>
       ELSE /\ users' = [users EXCEPT ![user_id] = ActiveUser]
            /\ IF arg = None
               THEN /\ last' = See("start", user_id, "welcome")
                    /\ UNCHANGED <<rate, gate, chats, sched, buttons>>
               ELSE Access("start", user_id, arg,
                           handle_file_access(user_id, arg, gw), sends)
    /\ UNCHANGED <<now, admins, files, mandatory_channels, user_data>>

\* A re-download whose evaluation drops the requirements the gateway raised
\* for: the variant that shows what the frame property owes to check_membership
\* only reading self.mandatory_channels.
button_redownload_pruning(user_id, file_code, gw, sends) ==
    /\ <<"redownload", file_code>> \in buttons[user_id]
    /\ Access("redownload", user_id, file_code, redownload(user_id, file_code, gw), sends)
    /\ mandatory_channels' =
           [k \in ChanKeys |-> IF k \in redownload(user_id, file_code, gw).errors
                               THEN NoChannel ELSE mandatory_channels[k]]
    /\ UNCHANGED <<now, users, admins, files, user_data>>

\* button_callback for redownload_<code>
button_redownload(user_id, file_code, gw, sends) ==
    /\ <<"redownload", file_code>> \in buttons[user_id]
    /\ Access("redownload", user_id, file_code, redownload(user_id, file_code, gw), sends)
    /\ UNCHANGED <<now, store, user_data>>

\* button_callback for check_<code>
button_check(user_id, file_code, gw, sends) ==
    /\ <<"check", file_code>> \in buttons[user_id]
    /\ Access("check", user_id, file_code, check_joined(user_id, file_code, gw), sends)
    /\ UNCHANGED <<now, store, user_data>>


(* ---------------------------------------------------------------- *)
(* Text inputs                                                      *)
(* ---------------------------------------------------------------- *)
\* int(text) on the texts the model sends; any other text raises ValueError.
\* int() takes more than plain digit strings: digits grouped with single
\* underscores ("1_0" is 10), a sign, surrounding whitespace, non-ASCII digits.
IntOfText == ("1" :> 1) @@ ("2" :> 2) @@ ("9" :> 9) @@ ("4" :> 4) @@ ("5" :> 5)
             @@ ("6" :> 6) @@ ("30" :> 30) @@ ("31" :> 31) @@ ("-1001" :> -1001)
             @@ ("1_0" :> 10)
ParseInt(text) ==
    IF text \in DOMAIN IntOfText
    THEN [ok |-> TRUE, val |-> IntOfText[text]]
    ELSE [ok |-> FALSE, val |-> 0]

\* extract_channel_info(text) on the texts the model sends: "@a" is a username,
\* "-1001" a numeric chat id, anything else has no accepted format (None).
extract_channel_info(text) ==
    IF text = "@a"
    THEN [NoChannel EXCEPT !.identifier = text]
    ELSE IF text = "-1001"
    THEN [NoChannel EXCEPT !.identifier = text, !.id_is_int = TRUE]
    ELSE NoChannel

\* The chat a reference names at the gateway.
ChatOf == ("@a" :> -1001) @@ ("-1001" :> -1001)

\* The answers check_if_bot_is_admin(identifier) can give, as (is_admin, chat_id):
\* (False, None) when the chat cannot be resolved or a call raises, else the
\* chat's id with is_admin as the gateway reports the bot's status.
BotAdminAnswers(identifier) ==
    {[is_admin |-> FALSE, chat_id |-> 0],
     [is_admin |-> FALSE, chat_id |-> ChatOf[identifier]],
     [is_admin |-> TRUE, chat_id |-> ChatOf[identifier]]}

(* ---------------------------------------------------------------- *)
(* Upload wizard                                                    *)
(* ---------------------------------------------------------------- *)
Quiet == <<now, rate, gate, chats, sched, buttons>>

\* list.append on the object temp_files names: every stored bundle that holds
\* the same object sees the new item
AppendShared(codes, item) ==
    [c \in Codes |-> IF c \in codes THEN [files[c] EXCEPT !.files = Append(@, item)]
                     ELSE files[c]]

\* A bundle stored or deleted under code: nobody's temp_files is that entry's
\* list any more
Unshare(data, code) == [u \in UserIds |-> [data[u] EXCEPT !.shares = @ \ {code}]]

\* A handle_media whose admin branch puts the new item in front of the pending
\* list: the variant that shows what the upload property owes to list.append.
handle_media_prepending(user_id, file_type) ==
    /\ IF is_admin(user_id)
       THEN /\ Len(user_data[user_id].temp_files) < MaxFiles
            /\ user_data' = [user_data EXCEPT ![user_id].temp_files =
                                <<[file_type |-> file_type]>> \o @]
            /\ files' = AppendShared(user_data[user_id].shares, [file_type |-> file_type])
            /\ last' = See("media", user_id, "file_received")
       ELSE IF user_data[user_id].awaiting = "user_content_to_admin"
       THEN /\ user_data' = [user_data EXCEPT ![user_id].temp_user_file = file_type,
                                ![user_id].awaiting = "user_caption_to_admin"]
            /\ last' = See("media", user_id, "ask_caption")
            /\ UNCHANGED files
       ELSE /\ UNCHANGED <<user_data, files>>
            /\ last' = See("media", user_id, "use_contact_button")
    /\ UNCHANGED <<users, admins, mandatory_channels, Quiet>>

\* handle_media, for a photo or a video
handle_media(user_id, file_type) ==
    /\ IF is_admin(user_id)
       THEN \* handle_admin_media
            /\ Len(user_data[user_id].temp_files) < MaxFiles
            /\ user_data' = [user_data EXCEPT ![user_id].temp_files =
                                Append(@, [file_type |-> file_type])]
            /\ files' = AppendShared(user_data[user_id].shares, [file_type |-> file_type])
            /\ last' = See("media", user_id, "file_received")
       ELSE IF user_data[user_id].awaiting = "user_content_to_admin"
       THEN \* handle_user_media_to_admin
            /\ user_data' = [user_data EXCEPT ![user_id].temp_user_file = file_type,
                                ![user_id].awaiting = "user_caption_to_admin"]
            /\ last' = See("media", user_id, "ask_caption")
            /\ UNCHANGED files
       ELSE /\ UNCHANGED <<user_data, files>>
            /\ last' = See("media", user_id, "use_contact_button")
    /\ UNCHANGED <<users, admins, mandatory_channels, Quiet>>

\* button_callback, data = "finish_files"
button_finish_files(user_id) ==
    /\ IF user_data[user_id].temp_files = <<>>
       THEN /\ user_data' = [user_data EXCEPT ![user_id] = EmptyData]
            /\ last' = See("finish_files", user_id, "no_files")
       ELSE /\ user_data' = [user_data EXCEPT ![user_id].awaiting = "caption_for_files"]
            /\ last' = See("finish_files", user_id, "ask_caption")
    /\ UNCHANGED <<store, Quiet>>

\* button_callback, data = "no_caption_files"
button_no_caption_files(user_id) ==
    /\ IF user_data[user_id].temp_files = <<>>
       THEN /\ user_data' = [user_data EXCEPT ![user_id] = EmptyData]
            /\ last' = See("no_caption_files", user_id, "no_files")
       ELSE /\ user_data' = [user_data EXCEPT ![user_id].caption = None,
                                ![user_id].awaiting = "delete_time"]
            /\ last' = See("no_caption_files", user_id, "ask_delete_time")
    /\ UNCHANGED <<store, Quiet>>

\* handle_text with awaiting = 'caption_for_files'
text_caption_for_files(user_id, text) ==
    /\ user_data[user_id].awaiting = "caption_for_files"
    /\ IF user_data[user_id].temp_files = <<>>
       THEN /\ user_data' = [user_data EXCEPT ![user_id] = EmptyData]
            /\ last' = See("caption_for_files", user_id, "no_files")
       ELSE /\ user_data' = [user_data EXCEPT ![user_id].caption = text,
                                ![user_id].awaiting = "delete_time"]
            /\ last' = See("caption_for_files", user_id, "ask_delete_time")
    /\ UNCHANGED <<store, Quiet>>

\* The bundle saved at bot.py:1474
NewBundle(data, delete_seconds, user_id) ==
    [files |-> data.temp_files, caption |-> data.caption,
     delete_seconds |-> delete_seconds, admin_id |-> user_id]

\* self.files[unique_code] = {...} with unique_code = secrets.token_urlsafe(6)
SaveBundle(unique_code, bundle) == [files EXCEPT ![unique_code] = bundle]

\* handle_text with awaiting = 'delete_time'; token is the value
\* secrets.token_urlsafe(6) returns, sent whether get_me and the reply that
\* carries the link go through; when one of them raises, the handler ends
\* before context.user_data.clear() (bot.py:1482-1494)
text_delete_time(user_id, text, token, sent) ==
    /\ user_data[user_id].awaiting = "delete_time"
    /\ IF user_data[user_id].temp_files = <<>>
       THEN /\ user_data' = [user_data EXCEPT ![user_id] = EmptyData]
            /\ last' = See("delete_time", user_id, "no_files")
            /\ UNCHANGED files
       ELSE LET p == ParseInt(text) IN
            IF ~p.ok
            THEN /\ last' = [See("delete_time", user_id, "not_a_number")
                             EXCEPT !.input = text]
                 /\ UNCHANGED <<files, user_data>>
            ELSE IF p.val < MinDeleteSeconds \/ p.val > MaxDeleteSeconds
            THEN /\ last' = [See("delete_time", user_id, "out_of_range")
                             EXCEPT !.input = text]
                 /\ UNCHANGED <<files, user_data>>
            ELSE /\ files' = SaveBundle(token, NewBundle(user_data[user_id], p.val, user_id))
                 /\ user_data' =
                        IF sent
                        THEN [Unshare(user_data, token) EXCEPT ![user_id] = EmptyData]
                        ELSE [Unshare(user_data, token) EXCEPT ![user_id].shares =
                                  user_data[user_id].shares \cup {token}]
                 /\ last' = [See("delete_time", user_id,
                                 IF sent THEN "link_created" ELSE "send_error")
                             EXCEPT !.code = token, !.input = text]
    /\ UNCHANGED <<users, admins, mandatory_channels, Quiet>>

\* A bundle deletion that also ends the deletion coroutines of the bundle's
\* deliveries: the variant that shows what the never-cancelled property owes to
\* delfile_ leaving the coroutines alone.
button_delfile_cancelling(user_id, file_code) ==
    /\ IF ~is_admin(user_id)
       THEN /\ last' = See("delfile", user_id, "admins_only")
            /\ UNCHANGED <<files, tasks>>
       ELSE IF files[file_code] # NoBundle
       THEN /\ files' = [files EXCEPT ![file_code] = NoBundle]
            /\ tasks' = [t \in 1..Len(tasks) |->
                            IF tasks[t].file_code = file_code
                            THEN [tasks[t] EXCEPT !.done = TRUE] ELSE tasks[t]]
            /\ last' = [See("delfile", user_id, "deleted") EXCEPT !.code = file_code]
       ELSE /\ last' = See("delfile", user_id, "not_found")
            /\ UNCHANGED <<files, tasks>>
    /\ user_data' = IF files'[file_code] # files[file_code]
                    THEN Unshare(user_data, file_code) ELSE user_data
    /\ UNCHANGED <<users, admins, mandatory_channels, now, rate, gate, chats, buttons,
                   next_message_id, deliveries, delete_attempts, downloads>>

\* button_callback, data = "delfile_" + file_code
button_delfile(user_id, file_code) ==
    /\ IF ~is_admin(user_id)
       THEN /\ last' = See("delfile", user_id, "admins_only")
            /\ UNCHANGED files
       ELSE IF files[file_code] # NoBundle
       THEN /\ files' = [files EXCEPT ![file_code] = NoBundle]
            /\ last' = [See("delfile", user_id, "deleted") EXCEPT !.code = file_code]
       ELSE /\ last' = See("delfile", user_id, "not_found")
            /\ UNCHANGED files
    /\ user_data' = IF files'[file_code] # files[file_code]
                    THEN Unshare(user_data, file_code) ELSE user_data
    /\ UNCHANGED <<users, admins, mandatory_channels, Quiet>>


(* ---------------------------------------------------------------- *)
(* Channel wizard                                                   *)
(* ---------------------------------------------------------------- *)
\* handle_inline_menu_callback for an entry that only sets the awaited step
\* (menu_add_channel -> 'channel_link', menu_block_user -> 'block_user_id',
\* menu_pm_user -> 'target_user_id', menu_broadcast -> 'broadcast_message')
menu_step(user_id, step) ==
    /\ IF ~is_admin(user_id)
       THEN /\ last' = See("menu", user_id, "admins_only")
            /\ UNCHANGED user_data
       ELSE /\ user_data' = [user_data EXCEPT ![user_id].awaiting = step]
            /\ last' = See("menu", user_id, step)
    /\ UNCHANGED <<store, Quiet>>

\* handle_text with awaiting = 'channel_link'; answer is what
\* check_if_bot_is_admin returns for the extracted identifier
text_channel_link(user_id, text, answer) ==
    /\ user_data[user_id].awaiting = "channel_link"
    /\ IF ~is_admin(user_id)
       THEN /\ last' = See("channel_link", user_id, None)
            /\ UNCHANGED user_data
       ELSE LET channel_info == extract_channel_info(text) IN
            IF channel_info = NoChannel
            THEN /\ last' = [See("channel_link", user_id, "bad_format") EXCEPT !.input = text]
                 /\ UNCHANGED user_data
            ELSE /\ answer \in BotAdminAnswers(channel_info.identifier)
                 /\ user_data' = [user_data EXCEPT
                        ![user_id].temp_channel =
                            [channel_info EXCEPT !.can_auto_verify = answer.is_admin,
                                                 !.chat_id = answer.chat_id],
                        ![user_id].awaiting = "channel_button_text"]
                 /\ last' = [See("channel_link", user_id, "ask_button_text") EXCEPT !.input = text]
    /\ UNCHANGED <<store, Quiet>>

\* handle_text with awaiting = 'channel_button_text'
text_channel_button_text(user_id, text) ==
    /\ user_data[user_id].awaiting = "channel_button_text"
    /\ IF ~is_admin(user_id)
       THEN /\ last' = See("channel_button_text", user_id, None)
            /\ UNCHANGED <<user_data, mandatory_channels>>
       ELSE IF user_data[user_id].temp_channel = NoChannel
       THEN /\ user_data' = [user_data EXCEPT ![user_id] = EmptyData]
            /\ last' = See("channel_button_text", user_id, "no_channel")
            /\ UNCHANGED mandatory_channels
       ELSE LET channel_info == [user_data[user_id].temp_channel
                                    EXCEPT !.button_text = text]
                channel_key == ChannelKey(channel_info)
            IN /\ mandatory_channels' =
                       [mandatory_channels EXCEPT ![channel_key] = channel_info]
               /\ user_data' = [user_data EXCEPT ![user_id] = EmptyData]
               /\ last' = See("channel_button_text", user_id, "channel_added")
    /\ UNCHANGED <<users, admins, files, Quiet>>

\* button_callback, data = "delchan_" + channel_key
button_delchan(user_id, channel_key) ==
    /\ IF ~is_admin(user_id)
       THEN /\ last' = See("delchan", user_id, "admins_only")
            /\ UNCHANGED mandatory_channels
       ELSE IF mandatory_channels[channel_key] # NoChannel
       THEN /\ mandatory_channels' = [mandatory_channels EXCEPT ![channel_key] = NoChannel]
            /\ last' = See("delchan", user_id, "removed")
       ELSE /\ last' = See("delchan", user_id, "not_found")
            /\ UNCHANGED mandatory_channels
    /\ UNCHANGED <<users, admins, files, user_data, Quiet>>

(* ---------------------------------------------------------------- *)
(* Blocking users                                                   *)
(* ---------------------------------------------------------------- *)
InUsers(id) == id \in UserIds /\ users[id].known

\* A block step that gives the conversation up when the id is of no known user:
\* the variant that shows what the retry property owes to the bare return.
text_block_user_id_giving_up(user_id, text) ==
    /\ user_data[user_id].awaiting = "block_user_id"
    /\ IF ~is_admin(user_id)
       THEN /\ last' = See("block_user_id", user_id, None)
            /\ UNCHANGED <<users, user_data>>
       ELSE LET p == ParseInt(text) IN
            IF ~p.ok
            THEN /\ last' = [See("block_user_id", user_id, "not_a_number") EXCEPT !.input = text]
                 /\ UNCHANGED <<users, user_data>>
            ELSE IF ~InUsers(p.val)
            THEN /\ last' = [See("block_user_id", user_id, "not_found") EXCEPT !.input = text]
                 /\ user_data' = [user_data EXCEPT ![user_id] = EmptyData]
                 /\ UNCHANGED users
            ELSE /\ users' = [users EXCEPT ![p.val].is_blocked = TRUE]
                 /\ user_data' = [user_data EXCEPT ![user_id] = EmptyData]
                 /\ last' = [See("block_user_id", user_id, "blocked") EXCEPT !.input = text]
    /\ UNCHANGED <<admins, files, mandatory_channels, Quiet>>

\* handle_text with awaiting = 'target_user_id'
text_target_user_id(user_id, text) ==
    /\ user_data[user_id].awaiting = "target_user_id"
    /\ IF ~is_admin(user_id)
       THEN /\ last' = See("target_user_id", user_id, None)
            /\ UNCHANGED user_data
       ELSE LET p == ParseInt(text) IN
            IF ~p.ok
            THEN /\ last' = [See("target_user_id", user_id, "not_a_number") EXCEPT !.input = text]
                 /\ UNCHANGED user_data
            ELSE IF ~InUsers(p.val)
            THEN /\ last' = [See("target_user_id", user_id, "not_found") EXCEPT !.input = text]
                 /\ UNCHANGED user_data
            ELSE /\ user_data' = [user_data EXCEPT ![user_id].target_user_id = p.val,
                                                   ![user_id].awaiting = "pm_message"]
                 /\ last' = [See("target_user_id", user_id, "ask_message") EXCEPT !.input = text]
    /\ UNCHANGED <<store, Quiet>>

\* handle_text with awaiting = 'pm_message'; ok tells whether the send to the
\* target went through (a raise is caught and reported, bot.py:1647-1649)
text_pm_message(user_id, ok) ==
    /\ user_data[user_id].awaiting = "pm_message"
    /\ IF ~is_admin(user_id)
       THEN /\ last' = See("pm_message", user_id, None)
            /\ UNCHANGED user_data
       ELSE IF user_data[user_id].target_user_id = 0
       THEN /\ user_data' = [user_data EXCEPT ![user_id] = EmptyData]
            /\ last' = See("pm_message", user_id, "no_target")
       ELSE /\ user_data' = [user_data EXCEPT ![user_id] = EmptyData]
            /\ last' = [See("pm_message", user_id, IF ok THEN "pm_sent" ELSE "pm_failed")
                         EXCEPT !.target = user_data[user_id].target_user_id]
    /\ UNCHANGED <<store, Quiet>>

\* handle_text with awaiting = 'block_user_id'
text_block_user_id(user_id, text) ==
    /\ user_data[user_id].awaiting = "block_user_id"
    /\ IF ~is_admin(user_id)
       THEN /\ last' = See("block_user_id", user_id, None)
            /\ UNCHANGED <<users, user_data>>
       ELSE LET p == ParseInt(text) IN
            IF ~p.ok
            THEN /\ last' = [See("block_user_id", user_id, "not_a_number") EXCEPT !.input = text]
                 /\ UNCHANGED <<users, user_data>>
            ELSE IF ~InUsers(p.val)
            THEN /\ last' = [See("block_user_id", user_id, "not_found") EXCEPT !.input = text]
                 /\ UNCHANGED <<users, user_data>>
            ELSE /\ users' = [users EXCEPT ![p.val].is_blocked = TRUE]
                 /\ user_data' = [user_data EXCEPT ![user_id] = EmptyData]
                 /\ last' = [See("block_user_id", user_id, "blocked") EXCEPT !.input = text]
    /\ UNCHANGED <<admins, files, mandatory_channels, Quiet>>

\* button_callback, data = "unblock_" + str(user id)
button_unblock(user_id, user_id_to_unblock) ==
    /\ IF ~is_admin(user_id)
       THEN /\ last' = See("unblock", user_id, "admins_only")
            /\ UNCHANGED users
       ELSE IF InUsers(user_id_to_unblock)
       THEN /\ users' = [users EXCEPT ![user_id_to_unblock].is_blocked = FALSE]
            /\ last' = See("unblock", user_id, "unblocked")
       ELSE /\ last' = See("unblock", user_id, "not_found")
            /\ UNCHANGED users
    /\ UNCHANGED <<admins, files, mandatory_channels, user_data, Quiet>>

(* ---------------------------------------------------------------- *)
(* Admin management                                                 *)
(* ---------------------------------------------------------------- *)
\* button_callback, data = "add_new_admin"
button_add_new_admin(user_id) ==
    /\ IF user_id # MAIN_ADMIN_ID
       THEN /\ last' = See("add_new_admin", user_id, "main_admin_only")
            /\ UNCHANGED user_data
       ELSE /\ user_data' = [user_data EXCEPT ![user_id].awaiting = "new_admin_id"]
            /\ last' = See("add_new_admin", user_id, "ask_admin_id")
    /\ UNCHANGED <<store, Quiet>>

\* handle_text with awaiting = 'new_admin_id'
text_new_admin_id(user_id, text) ==
    /\ user_data[user_id].awaiting = "new_admin_id"
    /\ IF user_id # MAIN_ADMIN_ID
       THEN /\ last' = See("new_admin_id", user_id, None)
            /\ UNCHANGED <<admins, user_data>>
       ELSE LET p == ParseInt(text) IN
            IF ~p.ok
            THEN /\ last' = [See("new_admin_id", user_id, "not_a_number") EXCEPT !.input = text]
                 /\ UNCHANGED <<admins, user_data>>
            ELSE IF p.val \in admins
            THEN /\ last' = [See("new_admin_id", user_id, "already_admin") EXCEPT !.input = text]
                 /\ UNCHANGED <<admins, user_data>>
            ELSE /\ admins' = admins \cup {p.val}
                 /\ user_data' = [user_data EXCEPT ![user_id] = EmptyData]
                 /\ last' = [See("new_admin_id", user_id, "admin_added") EXCEPT !.input = text]
    /\ UNCHANGED <<users, files, mandatory_channels, Quiet>>

\* del self.admins[admin_id_to_remove], and a removal that spares nobody
RemoveAny(admin_set, admin_id_to_remove) == admin_set \ {admin_id_to_remove}

\* The removal of button_callback "removeadmin_": the main admin is refused
\* (bot.py:894), an id that is not an admin is left alone (bot.py:898)
RemoveAdmin(admin_set, admin_id_to_remove) ==
    IF admin_id_to_remove = MAIN_ADMIN_ID
    THEN admin_set
    ELSE admin_set \ {admin_id_to_remove}

\* A removeadmin_ that every admin may use (is_admin for the comparison with
\* MAIN_ADMIN_ID): the variant that shows what the main-admin-only property
\* owes to the comparison.
button_removeadmin_by_any_admin(user_id, admin_id_to_remove) ==
    /\ IF ~is_admin(user_id)
       THEN /\ last' = [See("removeadmin", user_id, "main_admin_only")
                        EXCEPT !.target = admin_id_to_remove]
            /\ UNCHANGED admins
       ELSE /\ admins' = IF admin_id_to_remove = MAIN_ADMIN_ID THEN admins
                         ELSE admins \ {admin_id_to_remove}
            /\ last' = [See("removeadmin", user_id,
                            IF admin_id_to_remove = MAIN_ADMIN_ID THEN "cannot_remove_main"
                            ELSE IF admin_id_to_remove \in admins THEN "admin_removed"
                            ELSE "not_an_admin")
                        EXCEPT !.target = admin_id_to_remove]
    /\ UNCHANGED <<users, files, mandatory_channels, user_data, Quiet>>

\* button_callback, data = "removeadmin_" + str(admin id)
button_removeadmin(user_id, admin_id_to_remove) ==
    /\ IF user_id # MAIN_ADMIN_ID
       THEN /\ last' = [See("removeadmin", user_id, "main_admin_only")
                        EXCEPT !.target = admin_id_to_remove]
            /\ UNCHANGED admins
       ELSE /\ admins' = RemoveAdmin(admins, admin_id_to_remove)
            /\ last' = [See("removeadmin", user_id,
                            IF admin_id_to_remove = MAIN_ADMIN_ID THEN "cannot_remove_main"
                            ELSE IF admin_id_to_remove \in admins THEN "admin_removed"
                            ELSE "not_an_admin")
                        EXCEPT !.target = admin_id_to_remove]
    /\ UNCHANGED <<users, files, mandatory_channels, user_data, Quiet>>

(* ---------------------------------------------------------------- *)
(* Contacting the admins, cancelling, text outside any flow         *)
(* ---------------------------------------------------------------- *)
\* context.user_data.clear(), and a clear that forgets only the awaited step
ClearStep(data) == [data EXCEPT !.awaiting = None]
Clear(data) == EmptyData

\* button_callback, data = "contact_admin", and handle_text for the keyboard
\* text of the same name
button_contact_admin(user_id) ==
    /\ user_data' = [user_data EXCEPT ![user_id].awaiting = "user_content_to_admin"]
    /\ last' = See("contact_admin", user_id, "ask_content")
    /\ UNCHANGED <<store, Quiet>>

\* handle_text with awaiting = 'user_content_to_admin': the text is forwarded
\* to the admins
text_user_content_to_admin(user_id) ==
    /\ user_data[user_id].awaiting = "user_content_to_admin"
    /\ user_data' = [user_data EXCEPT ![user_id] = EmptyData]
    /\ last' = See("user_content_to_admin", user_id, "forwarded")
    /\ UNCHANGED <<store, Quiet>>

\* A cancel that clears a conversation store shared by all users: the variant
\* that shows what the independence property owes to the per-user user_data.
button_cancel_everyone(user_id, data) ==
    /\ data \in {"cancel_upload", "cancel_user_send"}
    /\ user_data' = [u \in UserIds |-> EmptyData]
    /\ last' = [See(data, user_id, "cancelled")
                 EXCEPT !.step = user_data[user_id].awaiting]
    /\ UNCHANGED <<store, Quiet>>

\* button_callback, data = "cancel_upload" or "cancel_user_send"
button_cancel(user_id, data) ==
    /\ data \in {"cancel_upload", "cancel_user_send"}
    /\ user_data' = [user_data EXCEPT ![user_id] = Clear(@)]
    /\ last' = [See(data, user_id, "cancelled")
                 EXCEPT !.step = user_data[user_id].awaiting]
    /\ UNCHANGED <<store, Quiet>>

\* handle_text for a text that is no keyboard entry while nothing is awaited
text_idle(user_id) ==
    /\ user_data[user_id].awaiting = None
    /\ last' = See("text", user_id, None)
    /\ UNCHANGED <<store, user_data, Quiet>>

(* ---------------------------------------------------------------- *)
(* Auto-detected channels                                           *)
(* ---------------------------------------------------------------- *)
\* The entry handle_bot_chat_member stores for a chat, as it is once
\* auto_channel_button_text has set its button text and can_auto_verify
\* (bot.py:1580-1581); it has no 'identifier' key.
DetectedChannel(chat_id, text) ==
    [identifier |-> None, id_is_int |-> FALSE, chat_id |-> chat_id,
     can_auto_verify |-> TRUE, button_text |-> text]

\* Telegram changes the bot's status in a chat and sends the my_chat_member
\* update: handle_bot_chat_member records the chat when the bot became an
\* admin and does nothing when it stopped being one.
handle_bot_chat_member(chat_id, is_admin_now) ==
    /\ is_admin_now # (chat_id \in bot_admin_in)
    /\ bot_admin_in' = IF is_admin_now THEN bot_admin_in \cup {chat_id}
                       ELSE bot_admin_in \ {chat_id}
    /\ detected_channels' = IF is_admin_now THEN detected_channels \cup {chat_id}
                            ELSE detected_channels
    /\ last' = [See("my_chat_member", 0, IF is_admin_now THEN "detected" ELSE None)
                EXCEPT !.target = chat_id]
    /\ UNCHANGED <<now, store, rate, gate, sched, buttons, user_data, casts>>

\* button_callback, data = "autoadd_" + str(chat_id)
button_autoadd(user_id, chat_id) ==
    /\ IF user_id # MAIN_ADMIN_ID
       THEN /\ last' = See("autoadd", user_id, "main_admin_only")
            /\ UNCHANGED user_data
       ELSE IF chat_id \notin detected_channels
       THEN /\ last' = See("autoadd", user_id, "not_found")
            /\ UNCHANGED user_data
       ELSE /\ user_data' = [user_data EXCEPT
                   ![user_id].temp_channel_from_auto = DetectedChannel(chat_id, None),
                   ![user_id].awaiting = "auto_channel_button_text"]
            /\ last' = [See("autoadd", user_id, "ask_button_text")
                        EXCEPT !.target = chat_id]
    /\ UNCHANGED <<store, Quiet>>

\* handle_text with awaiting = 'auto_channel_button_text'
text_auto_channel_button_text(user_id, text) ==
    /\ user_data[user_id].awaiting = "auto_channel_button_text"
    /\ IF user_id # MAIN_ADMIN_ID
       THEN /\ last' = See("auto_channel_button_text", user_id, None)
            /\ UNCHANGED <<user_data, mandatory_channels>>
       ELSE IF user_data[user_id].temp_channel_from_auto = NoChannel
       THEN /\ user_data' = [user_data EXCEPT ![user_id] = EmptyData]
            /\ last' = See("auto_channel_button_text", user_id, "no_channel")
            /\ UNCHANGED mandatory_channels
       ELSE LET chat_id == user_data[user_id].temp_channel_from_auto.chat_id
                channel_key == StrOfInt[chat_id]
            IN /\ mandatory_channels' =
                       [mandatory_channels EXCEPT
                            ![channel_key] = DetectedChannel(chat_id, text)]
               /\ user_data' = [user_data EXCEPT ![user_id] = EmptyData]
               /\ last' = See("auto_channel_button_text", user_id, "channel_added")
    /\ UNCHANGED <<users, admins, files, Quiet>>

(* ---------------------------------------------------------------- *)
(* Broadcast: the coroutine created at the broadcast_message step   *)
(* ---------------------------------------------------------------- *)
\* The keys of self.users
KnownUsers == {u \in UserIds : users[u].known}

\* The orders in which a dict with these keys can hand them out
Orders(keys) ==
    {order \in UNION {[1..n -> keys] : n \in {Cardinality(keys)}} :
        \A i, j \in DOMAIN order : order[i] = order[j] => i = j}

\* asyncio.create_task(self.broadcast_message(text, user.id)): the coroutine
\* has not run yet.  started: self.users.items() has been asked for its
\* iterator; order, size: the keys it hands out and the len() the dict had
\* then; pos: how many keys it handed out; attempted, skipped: the users a
\* send was made to, the users passed over as blocked; reports: the report
\* sends made to the admin; ended: the coroutine returned or raised; raised:
\* it ended by an exception nobody catches.
NewCast(admin_id) ==
    [admin_id |-> admin_id, started |-> FALSE, order |-> <<>>, size |-> 0,
     pos |-> 0, attempted |-> {}, skipped |-> {}, reports |-> 0,
     ended |-> FALSE, raised |-> FALSE]

\* broadcast_message from one suspension to the next.  The first run asks
\* self.users.items() for its iterator; every run then asks the iterator for
\* the next item until one is of a user that is not blocked, makes the send to
\* that user and suspends in it (and, the send accepted, in the sleep after
\* it: a refused send is counted and the loop goes on at once, which no other
\* handler can tell apart).  The dict iterator raises RuntimeError when the
\* dict's size is no longer the size it had when the iterator was made; the
\* for statement is in no try block, so the coroutine ends there.  The items
\* exhausted, the report is sent to the admin and the coroutine returns.
broadcast_message(b, order) ==
    /\ b \in 1..Len(casts)
    /\ ~casts[b].ended
    /\ IF casts[b].started THEN order = casts[b].order ELSE order \in Orders(KnownUsers)
    /\ LET c == IF casts[b].started THEN casts[b]
                ELSE [casts[b] EXCEPT !.started = TRUE, !.order = order,
                                      !.size = Cardinality(KnownUsers)]
           unblocked == {i \in (c.pos + 1)..Len(c.order) :
                            ~users[c.order[i]].is_blocked}
           passed(upto) == {c.order[i] : i \in (c.pos + 1)..upto}
       IN IF Cardinality(KnownUsers) # c.size
          THEN /\ casts' = [casts EXCEPT ![b] =
                              [c EXCEPT !.ended = TRUE, !.raised = TRUE]]
               /\ last' = See("broadcast", c.admin_id, "RuntimeError")
          ELSE IF unblocked = {}
          THEN /\ casts' = [casts EXCEPT ![b] =
                              [c EXCEPT !.pos = Len(c.order),
                                        !.skipped = @ \cup passed(Len(c.order)),
                                        !.reports = @ + 1, !.ended = TRUE]]
               /\ last' = See("broadcast", c.admin_id, "report")
          ELSE LET i == CHOOSE k \in unblocked : \A m \in unblocked : k <= m
               IN /\ casts' = [casts EXCEPT ![b] =
                                 [c EXCEPT !.pos = i,
                                           !.skipped = @ \cup passed(i - 1),
                                           !.attempted = @ \cup {c.order[i]}]]
                  /\ last' = [See("broadcast", c.admin_id, "sent")
                              EXCEPT !.target = c.order[i]]
    /\ UNCHANGED <<now, store, rate, gate, sched, buttons, user_data,
                   detected_channels, bot_admin_in>>

\* handle_text with awaiting = 'broadcast_message': the coroutine is created
\* and the conversation is given up
text_broadcast_message(user_id) ==
    /\ user_data[user_id].awaiting = "broadcast_message"
    /\ Len(casts) < MaxBroadcasts
    /\ IF ~is_admin(user_id)
       THEN /\ last' = See("broadcast_message", user_id, None)
            /\ UNCHANGED <<user_data, casts>>
       ELSE /\ casts' = Append(casts, NewCast(user_id))
            /\ user_data' = [user_data EXCEPT ![user_id] = EmptyData]
            /\ last' = See("broadcast_message", user_id, "broadcasting")
    /\ UNCHANGED <<now, store, rate, gate, sched, buttons,
                   detected_channels, bot_admin_in>>

(* ---------------------------------------------------------------- *)
(* Initial state: TelegramBot.__init__                              *)
(* ---------------------------------------------------------------- *)
Init ==
    /\ now = 0
    /\ users = [u \in UserIds |-> NoUser]
    /\ admins = {MAIN_ADMIN_ID}
    /\ files = [c \in Codes |-> NoBundle]
    /\ mandatory_channels = [k \in ChanKeys |-> NoChannel]
    /\ spam_control = [u \in UserIds |-> NoSpam]
    /\ downloads = <<>>
    /\ user_channel_memberships = [u \in UserIds |-> NoMemberships]
    /\ user_data = [u \in UserIds |-> EmptyData]
    /\ tasks = <<>>
    /\ next_message_id = 1
    /\ deliveries = <<>>
    /\ delete_attempts = [m \in MessageIds |-> 0]
    /\ buttons = [u \in UserIds |-> {}]
    /\ burst = [u \in UserIds |-> NoBurst]
    /\ heard = [u \in UserIds |-> NoneHeard]
    /\ detected_channels = {}
    /\ bot_admin_in = {}
    /\ casts = <<>>
    /\ last = Obs

(* ---------------------------------------------------------------- *)
(* Rate limiter alone: a visitor opening start links while no       *)
(* bundle is stored, time passing tick by tick                      *)
(* ---------------------------------------------------------------- *)
Visitor == CHOOSE u \in UserIds : u # MAIN_ADMIN_ID
NoGateway == [c \in ChatIds |-> "error"]

RateStart == \E c \in Codes : start_command(Visitor, c, NoGateway, MaxFiles)
RateTick == Tick(1, RateHorizon)

NextRate == RateStart \/ RateTick
SpecRate == Init /\ [][NextRate]_vars

\* The last handled update was the k-th request of u's opening run: u is not an
\* admin, had no spam_control entry before the run, and each request of the run
\* came less than 2 seconds after the one before.
RunRequest(u, k) ==
    /\ ~is_admin(u)
    /\ last.user = u /\ last.outcome # None
    /\ burst[u].open /\ burst[u].calls = k /\ burst[u].at = now

\* C10 (escalating lockout): in such a run the 1st request is allowed, the 2nd
\* to 4th are throttled, and the 5th is answered with the 10-second lockout and
\* leaves blocked_until at now + 10 s.
C10_Escalation ==
    \A u \in UserIds :
        /\ RunRequest(u, 1) => last.outcome = "allowed"
        /\ \A k \in 2..4 : RunRequest(u, k) => last.outcome = "throttled"
        /\ RunRequest(u, 5) =>
                /\ last.outcome = "locked_now" /\ last.wait = 10
                /\ spam_control[u].blocked_until = now + 10 * TicksPerSecond

\* The step handles a request of u that went through the rate limiter.
Limited(u) == last'.user = u /\ last'.outcome \notin {None, "bypass"}

\* u's blocked_until is set and still ahead.
LockedOut(u) ==
    spam_control[u].blocked_until # NoTime /\ now < spam_control[u].blocked_until

\* C11 (lockout dominates): a request of a user whose blocked_until is set and
\* still ahead is answered with the lockout, whatever request_count and
\* last_request are, leaves the user's entry as it is, and reports a remaining
\* time no greater than the one the latest lockout answer reported.
C11_LockoutDominates ==
    [][\A u \in UserIds :
         (Limited(u) /\ LockedOut(u)) =>
            /\ last'.outcome = "locked"
            /\ spam_control'[u] = spam_control[u]
            /\ heard[u].told # NoTime => last'.wait <= heard[u].told]_vars

\* A request under a lockout, more than 2 seconds after the request that set
\* it, answered with a remaining time below 10.
C11_Witness ==
    /\ last.user = Visitor /\ last.outcome = "locked" /\ last.wait < 10
    /\ now - spam_control[Visitor].last_request >= 2 * TicksPerSecond
    /\ spam_control[Visitor].request_count = 5

\* C12 (window reset): a request of a user with no lockout ahead that comes at
\* least 2 seconds after the user's previous request, or is the first since a
\* lockout ran out, is allowed and leaves request_count at 1 and no
\* blocked_until.
C12_WindowReset ==
    [][\A u \in UserIds :
         (/\ Limited(u) /\ ~LockedOut(u)
          /\ \/ heard[u].prev # NoTime /\ now - heard[u].prev >= 2 * TicksPerSecond
             \/ spam_control[u].blocked_until # NoTime) =>
            /\ last'.outcome = "allowed"
            /\ spam_control'[u].request_count = 1
            /\ spam_control'[u].blocked_until = NoTime]_vars

\* The first request after a lockout has run out, allowed.
C12_Witness ==
    /\ last.user = Visitor /\ last.outcome = "allowed"
    /\ heard[Visitor].told # NoTime /\ heard[Visitor].prev = now
    /\ spam_control[Visitor].request_count = 1

\* C29 (throttled wait): a request answered as throttled comes less than 2
\* seconds after the user's last_request, which is also the user's latest
\* request; the waiting time it reports is the whole number w of seconds with
\* w <= 2 - elapsed < w + 1; and it sets last_request to now and adds one to
\* request_count.
C29_ThrottledWait ==
    [][\A u \in UserIds :
         (Limited(u) /\ last'.outcome = "throttled") =>
            /\ spam_control[u] # NoSpam
            /\ heard[u].prev = spam_control[u].last_request
            /\ LET elapsed == now - spam_control[u].last_request
                   left == 2 * TicksPerSecond - elapsed
               IN /\ elapsed >= 0 /\ elapsed < 2 * TicksPerSecond
                  /\ last'.wait * TicksPerSecond <= left
                  /\ left < (last'.wait + 1) * TicksPerSecond
            /\ spam_control'[u].last_request = now
            /\ spam_control'[u].request_count = spam_control[u].request_count + 1]_vars

\* A second request one and a half seconds after the first, throttled with a
\* waiting time of 0 seconds.
C29_Witness ==
    /\ last.user = Visitor /\ last.outcome = "throttled" /\ last.wait = 0
    /\ now = (3 * TicksPerSecond) \div 2
    /\ spam_control[Visitor].request_count = 2
    /\ spam_control[Visitor].last_request = now

\* C36 (lockout not extended): a request of a user whose blocked_until is still
\* ahead leaves request_count, last_request and blocked_until of the user as
\* they are; so a blocked_until, whenever one is set, is 10 seconds after the
\* last_request, which is the request that set it.
C36_LockoutNotExtended ==
    /\ [](\A u \in UserIds :
            (spam_control[u] # NoSpam /\ spam_control[u].blocked_until # NoTime) =>
                spam_control[u].blocked_until
                    = spam_control[u].last_request + 10 * TicksPerSecond)
    /\ [][\A u \in UserIds :
            (Limited(u) /\ LockedOut(u)) =>
                /\ spam_control'[u].request_count = spam_control[u].request_count
                /\ spam_control'[u].last_request = spam_control[u].last_request
                /\ spam_control'[u].blocked_until = spam_control[u].blocked_until]_vars

\* A request one tick before the lockout ends: refused, and the lockout still
\* ends 10 seconds after the request that set it.
C36_Witness ==
    /\ last.user = Visitor /\ last.outcome = "locked"
    /\ spam_control[Visitor].blocked_until - now = 1
    /\ heard[Visitor].prev = now
    /\ spam_control[Visitor].blocked_until
           = spam_control[Visitor].last_request + 10 * TicksPerSecond

\* C37 (counter range): between the handled requests a user's blocked_until
\* is set only while the user's request_count is at least 5, and the
\* request_count of a user who has made a rate-limited request is from 1 to 5.
C37_CounterRange ==
    \A u \in UserIds :
        spam_control[u] # NoSpam =>
            /\ spam_control[u].blocked_until # NoTime => spam_control[u].request_count >= 5
            /\ spam_control[u].request_count >= 1
            /\ spam_control[u].request_count <= 5

\* A lockout set by the fifth rapid request of a run that is not the user's
\* first.
C37_Witness ==
    /\ last.user = Visitor /\ last.outcome = "locked_now"
    /\ ~burst[Visitor].open
    /\ spam_control[Visitor].request_count = 5
    /\ spam_control[Visitor].blocked_until = now + 10 * TicksPerSecond

\* The run of the claim's example: five requests half a second apart, the
\* fifth at t = 2 s.
C10_Witness ==
    /\ RunRequest(Visitor, 5)
    /\ now = 2 * TicksPerSecond
    /\ spam_control[Visitor].request_count = 5


(* ---------------------------------------------------------------- *)
(* Membership gate: the main admin configures channels and uploads  *)
(* one bundle; a visitor uses the three entry paths, never twice    *)
(* within a spam window; time passes a spam window at a time        *)
(* ---------------------------------------------------------------- *)
Admin == MAIN_ADMIN_ID
\* One answer of each kind the code tells apart: a member, a non-member, a raise.
GwAnswers == [ChatIds -> {"member", "left", "error"}]
AllSent == MaxFiles
GateStep == MinDeleteSeconds * TicksPerSecond

\* The visitor's request is not one the rate limiter refuses.
Paced == Admit(Visitor, now).outcome \notin Refused

GateStart == \E gw \in GwAnswers :
                Paced /\ start_command(Visitor, "c1", gw, AllSent)
GateRedownload == \E gw \in GwAnswers :
                Paced /\ button_redownload(Visitor, "c1", gw, AllSent)
GateCheck == \E gw \in GwAnswers :
                Paced /\ button_check(Visitor, "c1", gw, AllSent)
GateMedia == /\ user_data[Admin] = EmptyData
             /\ files["c1"] = NoBundle
             /\ handle_media(Admin, "photo")
GateNoCaption == button_no_caption_files(Admin)
GateDeleteTime == text_delete_time(Admin, "5", "c1", TRUE)
GateMenu == user_data[Admin] = EmptyData /\ menu_step(Admin, "channel_link")
GateChannelLink == \E text \in {"@a"}, answer \in BotAdminAnswers("@a") :
                text_channel_link(Admin, text, answer)
GateChannelButton == text_channel_button_text(Admin, "Join")
GateDelChan == \E k \in ChanKeys : button_delchan(Admin, k)
GateDelete == \E t \in 1..MaxDeliveries : DeleteStep(t, TRUE)
GatePrompt == \E t \in 1..MaxDeliveries : PromptStep(t, TRUE)
GateWait == Tick(GateStep, GateWaits * GateStep)

NextGate ==
    \/ GateStart \/ GateRedownload \/ GateCheck
    \/ GateMedia \/ GateNoCaption \/ GateDeleteTime
    \/ GateMenu \/ GateChannelLink \/ GateChannelButton \/ GateDelChan
    \/ GateDelete \/ GatePrompt \/ GateWait
SpecGate == Init /\ [][NextGate]_vars

\* The requirement under key k is configured and is not one check_membership
\* asks the gateway about.
TrustMode(k) == k \in Configured /\ ~AutoVerifiable(mandatory_channels[k])

\* The step is a rate-limited request of user u that ran check_membership.
Evaluates(u) ==
    /\ spam_control'[u] # spam_control[u]
    /\ last'.user = u
    /\ last'.evaluated

\* C1 (membership fail-closed): whenever check_membership has run, every
\* requirement for which its get_chat_member call raised is in the unmet list it
\* returned, whatever the user's record for that requirement was before.
C1_FailClosed == last.evaluated => last.errors \subseteq last.not_joined

\* C3 (no delivery without the gate): a request that called send_files_to_user
\* ran check_membership first; check_membership returned no unmet requirement
\* or, in the 'I joined' action only, every unmet requirement was trust-mode; and
\* the user then holds a satisfied record for every configured requirement.
C3_GateBeforeDelivery ==
    last.delivered =>
        /\ last.evaluated
        /\ \/ last.not_joined = {}
           \/ last.op = "check" /\ \A k \in last.not_joined : TrustMode(k)
        /\ \A k \in Configured : user_channel_memberships[last.user][k] = "true"

\* A re-download that delivered after asking the gateway about a requirement.
C3_Witness == last.delivered /\ last.op = "redownload" /\ last.calls # {}

\* C4 (trust-mode optimism): an 'I joined' action that finds a trust-mode
\* requirement unmet leaves the user's record for it satisfied; and every
\* check_membership run that finds a satisfied record for a trust-mode
\* requirement reports the requirement met, asks the gateway nothing about it
\* and leaves the record satisfied.
C4_TrustOptimism ==
    [][\A u \in UserIds, k \in ChanKeys :
         (Evaluates(u) /\ TrustMode(k)) =>
            /\ k \notin last'.calls
            /\ (last'.op = "check" /\ k \in last'.not_joined)
                    => user_channel_memberships'[u][k] = "true"
            /\ user_channel_memberships[u][k] = "true"
                    => /\ k \notin last'.not_joined
                       /\ user_channel_memberships'[u][k] = "true"]_vars

\* A start link opened after the 'I joined' action: "@a" can only be a
\* trust-mode requirement, so its record comes from that action; the request
\* finds it met without a gateway call and delivers.
C4_Witness ==
    /\ last.op = "start" /\ last.delivered
    /\ TrustMode("@a")
    /\ "@a" \notin last.not_joined /\ last.calls = {}

(* ---------------------------------------------------------------- *)
(* Repository: the main admin uploads one-photo bundles, deletes    *)
(* them, adds a trust-mode channel, blocks and unblocks the         *)
(* visitor; the visitor uses the three entry paths                  *)
(* ---------------------------------------------------------------- *)
RepoStep == MinDeleteSeconds * TicksPerSecond
Idle == user_data[Admin] = EmptyData

RepoStart == \E c \in Codes : Paced /\ start_command(Visitor, c, NoGateway, AllSent)
RepoRedownload == \E c \in Codes : Paced /\ button_redownload(Visitor, c, NoGateway, AllSent)
RepoCheck == \E c \in Codes : Paced /\ button_check(Visitor, c, NoGateway, AllSent)
RepoMedia == Idle /\ handle_media(Admin, "photo")
RepoNoCaption == button_no_caption_files(Admin)
RepoDeleteTime == \E token \in Codes : text_delete_time(Admin, "5", token, TRUE)
RepoDelFile == \E c \in Codes : button_delfile(Admin, c)
RepoMenuChannel == Idle /\ menu_step(Admin, "channel_link")
RepoChannelLink == text_channel_link(Admin, "@a", [is_admin |-> FALSE, chat_id |-> 0])
RepoChannelButton == text_channel_button_text(Admin, "Join")
RepoMenuBlock == Idle /\ menu_step(Admin, "block_user_id")
RepoBlock == text_block_user_id(Admin, "2")
RepoUnblock == button_unblock(Admin, Visitor)
RepoDelete == \E t \in 1..MaxDeliveries : DeleteStep(t, TRUE)
RepoPrompt == \E t \in 1..MaxDeliveries : PromptStep(t, TRUE)
RepoWait == Tick(RepoStep, RepoWaits * RepoStep)

NextRepo ==
    \/ RepoStart \/ RepoRedownload \/ RepoCheck
    \/ RepoMedia \/ RepoNoCaption \/ RepoDeleteTime \/ RepoDelFile
    \/ RepoMenuChannel \/ RepoChannelLink \/ RepoChannelButton
    \/ RepoMenuBlock \/ RepoBlock \/ RepoUnblock
    \/ RepoDelete \/ RepoPrompt \/ RepoWait
SpecRepo == Init /\ [][NextRepo]_vars

\* The last handled update was a request for the bundle of a code that is not
\* in self.files: one never created, or one deleted since.
AbsentCodeRequest ==
    /\ last.op \in {"start", "redownload", "check"}
    /\ last.code \in Codes
    /\ files[last.code] = NoBundle

\* The reply the checks ahead of the look-up in self.files leave to a request
\* for an absent code.
AbsentCodeReply ==
    IF last.op = "start" /\ IsBlocked(last.user) THEN "blocked"
    ELSE IF last.outcome \in Refused THEN last.outcome
    ELSE IF last.op = "start" THEN "not_found"
    ELSE IF last.op = "redownload"
         THEN IF last.not_joined = {} THEN "not_found" ELSE "join_prompt"
    ELSE IF \E k \in last.not_joined : mandatory_channels[k].can_auto_verify
         THEN "auto_failed" ELSE "not_found"

\* C2 (blocked users are never served): no request of a user whose is_blocked
\* flag is set calls send_files_to_user, on the start link, the re-download
\* action or the 'I joined' action.
C2_BlockedNeverServed == last.delivered => ~IsBlocked(last.user)

\* C6 as stated (absent code): every request for a code that is not in
\* self.files is answered not-found, sends nothing and appends no download
\* record.
C6_AlwaysNotFound ==
    AbsentCodeRequest =>
        last.reply = "not_found" /\ ~last.delivered /\ last.recorded = 0

\* C6 as the code has it (absent code): a request for a code that is not in
\* self.files sends nothing and appends no download record; it is answered
\* not-found once it is past the blocked check of the start link, the rate
\* limiter and, on the re-download and 'I joined' actions, the membership gate,
\* and with the reply of the check that stopped it otherwise.
C6_AbsentCode ==
    AbsentCodeRequest =>
        /\ ~last.delivered
        /\ last.recorded = 0
        /\ last.reply = AbsentCodeReply

\* An 'I joined' action for a deleted bundle that gets as far as the look-up.
C6_Witness ==
    /\ AbsentCodeRequest
    /\ last.op = "check" /\ last.marked # {}
    /\ last.reply = "not_found"

(* ---------------------------------------------------------------- *)
(* Upload wizard alone: the main admin sends photos, finishes,      *)
(* gives or skips the caption, answers the delete time, deletes     *)
(* bundles                                                          *)
(* ---------------------------------------------------------------- *)
DeleteTimeTexts == {"4", "5", "30", "31", "soon", "1_0"}

UploadMedia == handle_media(Admin, "photo")
UploadFinish == button_finish_files(Admin)
UploadNoCaption == button_no_caption_files(Admin)
UploadCaption == text_caption_for_files(Admin, "hi")
UploadDeleteTime == \E text \in DeleteTimeTexts, token \in Codes :
                        text_delete_time(Admin, text, token, TRUE)
UploadDelFile == \E c \in Codes : button_delfile(Admin, c)

NextUpload ==
    \/ UploadMedia \/ UploadFinish \/ UploadNoCaption \/ UploadCaption
    \/ UploadDeleteTime \/ UploadDelFile
SpecUpload == Init /\ [][NextUpload]_vars

\* The inputs that are decimal integers, with their values.
Decimal == ("4" :> 4) @@ ("5" :> 5) @@ ("30" :> 30) @@ ("31" :> 31)

\* C13 (upload wizard boundary): at the delete-time step with pending media,
\* an input that is no decimal integer, or one below 5 or above 30, leaves
\* self.files and the whole conversation data as they are; an integer from 5 to
\* 30 stores exactly one bundle, made of the pending media and caption with that
\* delay, and clears the conversation data.
C13_DeleteTimeBoundary ==
    [][\A u \in UserIds :
         (/\ user_data[u].awaiting = "delete_time"
          /\ user_data[u].temp_files # <<>>
          /\ last'.op = "delete_time" /\ last'.user = u /\ last'.input # None) =>
            IF last'.input \in DOMAIN Decimal
               /\ Decimal[last'.input] >= 5 /\ Decimal[last'.input] <= 30
            THEN /\ \E c \in Codes :
                      /\ files'[c] = [files |-> user_data[u].temp_files,
                                      caption |-> user_data[u].caption,
                                      delete_seconds |-> Decimal[last'.input],
                                      admin_id |-> u]
                      /\ \A o \in Codes \ {c} : files'[o] = files[o]
                 /\ user_data'[u] = EmptyData
            ELSE files' = files /\ user_data' = user_data]_vars

\* C5 (code uniqueness): the code under which the delete-time step saves a
\* bundle is the code of no bundle that is in self.files at that moment.
C5_FreshCode ==
    [][(last'.op = "delete_time" /\ last'.reply = "link_created")
            => files[last'.code] = NoBundle]_vars

(* ---------------------------------------------------------------- *)
(* Delivery: the main admin first uploads a bundle of photos with   *)
(* a delete time of 5 seconds and may delete it; the visitor opens  *)
(* the link and presses the re-download button; the transport may   *)
(* refuse a send, a deletion or the prompt; time passes second by   *)
(* second                                                           *)
(* ---------------------------------------------------------------- *)
Sends == 0..MaxFiles

DeliverStart == \E sends \in Sends :
                    Paced /\ start_command(Visitor, "c1", NoGateway, sends)
DeliverRedownload == \E sends \in Sends :
                    Paced /\ button_redownload(Visitor, "c1", NoGateway, sends)
DeliverMedia == /\ now = 0 /\ deliveries = <<>> /\ files["c1"] = NoBundle
                /\ handle_media(Admin, "photo")
DeliverNoCaption == button_no_caption_files(Admin)
DeliverDeleteTime == text_delete_time(Admin, "5", "c1", TRUE)
DeliverDelFile == button_delfile(Admin, "c1")
DeliverDelete == \E t \in 1..MaxDeliveries, ok \in BOOLEAN : DeleteStep(t, ok)
DeliverPrompt == \E t \in 1..MaxDeliveries, ok \in BOOLEAN : PromptStep(t, ok)
DeliverTick == Tick(TicksPerSecond, MaxTime)

NextDeliver ==
    \/ DeliverStart \/ DeliverRedownload
    \/ DeliverMedia \/ DeliverNoCaption \/ DeliverDeleteTime \/ DeliverDelFile
    \/ DeliverDelete \/ DeliverPrompt \/ DeliverTick
SpecDeliver == Init /\ [][NextDeliver]_vars

\* The send_files_to_user calls so far, and the time the delay of one ends.
Calls == 1..Len(deliveries)
DelayEnd(dl) == dl.at + dl.delete_seconds * TicksPerSecond
Complete(dl) == ~dl.raised /\ dl.message_ids # <<>>

\* C7 (ephemeral delivery): for a send_files_to_user call that sent all N items
\* of a bundle with delay d, a deletion coroutine bound to the bundle's code and
\* the user exists; before d seconds have passed since the call it has attempted
\* no deletion and sent no prompt; it attempts the N sent message ids in order,
\* each once; it tries the re-download prompt once, after the N-th attempt; and
\* when it has ended it has made exactly N attempts and one prompt send.
C7_Ephemeral ==
    \A i \in Calls :
        LET dl == deliveries[i]
            n == Len(dl.message_ids)
        IN Complete(dl) =>
            /\ dl.task \in 1..Len(tasks)
            /\ LET t == tasks[dl.task] IN
               /\ t.file_code = dl.file_code /\ t.chat_id = dl.user_id
               /\ t.message_ids = dl.message_ids
               /\ now < DelayEnd(dl) => t.attempted = 0 /\ t.prompts = 0
               /\ t.attempted <= n
               /\ \A j \in 1..n : delete_attempts[dl.message_ids[j]] =
                                        IF j <= t.attempted THEN 1 ELSE 0
               /\ t.prompts <= 1
               /\ t.prompts = 1 => t.attempted = n
               /\ t.done => t.prompts = 1

\* Three items sent with a delay of 5 seconds, the coroutine ended, and the
\* visitor holding the re-download button of the bundle's code.
C7_Witness ==
    \E i \in Calls :
        /\ Complete(deliveries[i])
        /\ Len(deliveries[i].message_ids) = 3
        /\ deliveries[i].delete_seconds = 5
        /\ tasks[deliveries[i].task].done
        /\ <<"redownload", deliveries[i].file_code>> \in buttons[deliveries[i].user_id]

\* C8 (every sent message gets its deletion attempt): every message that a
\* send_files_to_user call sent, whether or not the call went on to send the
\* whole bundle, belongs to a deletion coroutine, which attempts it at most once
\* and has attempted it when it ends.  A message no coroutine holds can never
\* be attempted.
C8_EverySentMessageCovered ==
    \A i \in Calls :
        LET dl == deliveries[i] IN
        \A j \in 1..Len(dl.message_ids) :
            /\ dl.task \in 1..Len(tasks)
            /\ delete_attempts[dl.message_ids[j]] <= 1
            /\ tasks[dl.task].done => delete_attempts[dl.message_ids[j]] = 1

\* C9 (download log): a step appends exactly one record (code, user, time of
\* the call) to self.downloads if it is a send_files_to_user call that sent
\* every item, and none otherwise; the records already there stay as they are,
\* also when the bundle is deleted.
C9_DownloadLog ==
    [][LET called == Len(deliveries') = Len(deliveries) + 1
           dl == deliveries'[Len(deliveries')]
           appended == Len(downloads') - Len(downloads)
       IN /\ appended >= 0
          /\ SubSeq(downloads', 1, Len(downloads)) = downloads
          /\ IF called /\ ~dl.raised
             THEN /\ appended = 1
                  /\ downloads'[Len(downloads')] =
                        [file_code |-> dl.file_code, user_id |-> dl.user_id,
                         downloaded_at |-> now]
             ELSE appended = 0]_vars

\* One call that sent three items and one that failed, one record in the log,
\* and the bundle deleted afterwards.
C9_Witness ==
    /\ \E i \in Calls : ~deliveries[i].raised /\ Len(deliveries[i].message_ids) = 3
    /\ \E i \in Calls : deliveries[i].raised
    /\ Len(downloads) = 1
    /\ files[downloads[1].file_code] = NoBundle

(* ---------------------------------------------------------------- *)
(* Admins and wizards: the main admin adds and removes a second     *)
(* admin, who runs the upload, channel and block wizards, contacts  *)
(* the admins and cancels, before, while and after being an admin   *)
(* ---------------------------------------------------------------- *)
Staff == Visitor
Fresh(u) == user_data[u] = EmptyData

AdminStart == \E u \in UserIds : start_command(u, None, NoGateway, AllSent)
AdminAddButton == \E u \in UserIds : button_add_new_admin(u)
AdminNewAdminId == \E u \in UserIds, text \in {"2", "1", "soon"} : text_new_admin_id(u, text)
AdminRemove == \E u \in UserIds, id \in UserIds : button_removeadmin(u, id)
AdminMedia == Fresh(Staff) /\ handle_media(Staff, "photo")
AdminFinish == button_finish_files(Staff)
AdminNoCaption == button_no_caption_files(Staff)
AdminCaption == text_caption_for_files(Staff, "hi")
AdminDeleteTime == text_delete_time(Staff, "5", "c1", TRUE)
AdminDelFile == button_delfile(Staff, "c1")
AdminMenu == \E step \in {"channel_link", "block_user_id"} :
                 Fresh(Staff) /\ menu_step(Staff, step)
AdminChannelLink == text_channel_link(Staff, "@a", [is_admin |-> FALSE, chat_id |-> 0])
AdminChannelButton == text_channel_button_text(Staff, "Join")
AdminDelChan == button_delchan(Staff, "@a")
AdminBlock == text_block_user_id(Staff, "1")
AdminUnblock == button_unblock(Staff, Admin)
AdminContact == Fresh(Staff) /\ button_contact_admin(Staff)
AdminContactMedia == ~is_admin(Staff) /\ handle_media(Staff, "photo")
AdminContactText == text_user_content_to_admin(Staff)
AdminCancel == \E u \in UserIds, data \in {"cancel_upload", "cancel_user_send"} :
                   button_cancel(u, data)
AdminText == \E u \in UserIds : text_idle(u)

NextAdmin ==
    \/ AdminStart \/ AdminAddButton \/ AdminNewAdminId \/ AdminRemove
    \/ AdminMedia \/ AdminFinish \/ AdminNoCaption \/ AdminCaption \/ AdminDeleteTime
    \/ AdminDelFile \/ AdminMenu \/ AdminChannelLink \/ AdminChannelButton
    \/ AdminDelChan \/ AdminBlock \/ AdminUnblock
    \/ AdminContact \/ AdminContactMedia \/ AdminContactText
    \/ AdminCancel \/ AdminText
SpecAdmin == Init /\ [][NextAdmin]_vars

Cancels == {"cancel_upload", "cancel_user_send"}

\* An update that is handled as the next step of a flow: a text taken as the
\* awaited input, a media file taken as the contact file, or a finish or
\* no-caption press that finds pending media
Continues(o) ==
    \/ o.op \in {"caption_for_files", "delete_time", "channel_link",
                 "channel_button_text", "block_user_id", "new_admin_id",
                 "user_content_to_admin"}
    \/ o.op = "media" /\ o.reply = "ask_caption"
    \/ o.op \in {"finish_files", "no_caption_files"} /\ o.reply # "no_files"

\* C14: a cancel press, whatever the user's conversation state, leaves the user
\* with no awaited step and no pending payload and changes no bundle, channel
\* requirement, admin or user record; the same user's next update is not handled
\* as the continuation of a flow and changes none of these either, unless it is
\* an admin command in its own right.
C14_Cancel ==
    [][ /\ last'.op \in Cancels =>
               /\ user_data'[last'.user] = EmptyData
               /\ UNCHANGED store
        /\ (last.op \in Cancels /\ last'.user = last.user) =>
               /\ ~Continues(last')
               /\ last'.op \in {"text", "media", "finish_files", "no_caption_files"}
                      => UNCHANGED store
      ]_vars

\* An upload cancelled at its last step: no bundle was stored.
C14_Witness ==
    /\ last.op \in Cancels
    /\ last.user = Staff
    /\ last.step = "delete_time"
    /\ files["c1"] = NoBundle

\* C34: only a step of the main admin changes the admin set: an add-admin
\* press, a remove-admin press or a new-admin-id text of any other user, admin
\* or not, leaves it as it was, and so does every other step of another user.
C34_MainAdminOnly ==
    [][/\ admins' # admins =>
             /\ last'.user = MAIN_ADMIN_ID
             /\ last'.op \in {"removeadmin", "new_admin_id"}
       /\ (last'.user # MAIN_ADMIN_ID
              /\ last'.op \in {"add_new_admin", "removeadmin", "new_admin_id"}) =>
             /\ admins' = admins
             /\ user_data'[last'.user].awaiting # "new_admin_id"]_vars

\* The second admin asked for its own removal and was refused.
C34_Witness ==
    /\ last.op = "removeadmin" /\ last.reply = "main_admin_only"
    /\ last.user = Staff /\ last.target = Staff
    /\ Staff # MAIN_ADMIN_ID
    /\ Staff \in admins

\* C15: the main admin is an admin in every reachable state, and a remove-admin
\* press that names the main admin, whoever presses it, leaves the admin set
\* as it was.
C15_MainAdminStays ==
    /\ [](MAIN_ADMIN_ID \in admins)
    /\ [][ (last'.op = "removeadmin" /\ last'.target = MAIN_ADMIN_ID)
               => admins' = admins ]_vars

\* The main admin asked for its own removal while a second admin exists.
C15_Witness ==
    /\ last.op = "removeadmin"
    /\ last.user = MAIN_ADMIN_ID
    /\ last.target = MAIN_ADMIN_ID
    /\ last.reply = "cannot_remove_main"
    /\ Staff \in admins

\* C16: an update from a user who is not an admin when it is handled creates or
\* deletes no bundle, adds or removes no channel requirement and changes no
\* user's blocked flag, also when the user began a wizard as an admin and was
\* removed before completing it.
C16_NonAdminChangesNothing ==
    [][ last'.user \notin admins =>
            /\ files' = files
            /\ mandatory_channels' = mandatory_channels
            /\ \A u \in UserIds : users'[u].is_blocked = users[u].is_blocked
      ]_vars

(* ---------------------------------------------------------------- *)
(* Stored bundles: the main admin uploads photos and creates        *)
(* bundles, the reply that carries the link may fail, the admin     *)
(* goes on uploading, cancels, deletes bundles                      *)
(* ---------------------------------------------------------------- *)
BundleMedia == handle_media(Admin, "photo")
BundleNoCaption == button_no_caption_files(Admin)
BundleDeleteTime == \E token \in Codes, sent \in BOOLEAN :
                        text_delete_time(Admin, "5", token, sent)
BundleDelFile == \E c \in Codes : button_delfile(Admin, c)
BundleCancel == button_cancel(Admin, "cancel_upload")

NextBundle ==
    \/ BundleMedia \/ BundleNoCaption \/ BundleDeleteTime \/ BundleDelFile
    \/ BundleCancel
SpecBundle == Init /\ [][NextBundle]_vars

\* An admin deletes the bundle stored under c in this step
Deletes(c) == last'.op = "delfile" /\ last'.code = c /\ files'[c] = NoBundle

\* C17: a stored bundle keeps its media items and their order, its caption,
\* its deletion delay and its creator in every step other than its deletion
\* by an admin.
C17_BundleImmutable ==
    [][\A c \in Codes : (files[c] # NoBundle /\ ~Deletes(c)) => files'[c] = files[c]]_vars

(* ---------------------------------------------------------------- *)
(* Take-back: everything the admin and the visitor do happens at    *)
(* time 0, before any delay has elapsed: the admin uploads a bundle *)
(* with a delete time of 5 seconds, the visitor opens its link, the *)
(* admin deletes the bundle and blocks the visitor; then time       *)
(* passes and the deletion coroutine runs                           *)
(* ---------------------------------------------------------------- *)
AtStart == now = 0

TakebackMedia == AtStart /\ handle_media(Admin, "photo")
TakebackNoCaption == AtStart /\ button_no_caption_files(Admin)
TakebackDeleteTime == AtStart /\ text_delete_time(Admin, "5", "c1", TRUE)
TakebackStart == AtStart /\ Paced /\ start_command(Visitor, "c1", NoGateway, AllSent)
TakebackDelFile == AtStart /\ button_delfile(Admin, "c1")
TakebackMenuBlock == AtStart /\ Idle /\ menu_step(Admin, "block_user_id")
TakebackBlock == AtStart /\ text_block_user_id(Admin, "2")
TakebackDelete == \E t \in 1..MaxDeliveries, ok \in BOOLEAN : DeleteStep(t, ok)
TakebackPrompt == \E t \in 1..MaxDeliveries, ok \in BOOLEAN : PromptStep(t, ok)
TakebackTick == Tick(TicksPerSecond, MaxTime)

NextTakeback ==
    \/ TakebackMedia \/ TakebackNoCaption \/ TakebackDeleteTime \/ TakebackStart
    \/ TakebackDelFile \/ TakebackMenuBlock \/ TakebackBlock
    \/ TakebackDelete \/ TakebackPrompt \/ TakebackTick
SpecTakeback == Init /\ [][NextTakeback]_vars

Due(t) == ~tasks[t].done /\ now >= tasks[t].wake

\* C18: a scheduled deletion coroutine is never cancelled and runs at most once,
\* whether or not its bundle is still stored and its user unblocked: a
\* coroutine whose delay has elapsed can take its next step, a coroutine that
\* has ended made one attempt per message and one prompt send, no message is
\* attempted twice, and no step removes a coroutine or sets its progress back.
C18_NeverCancelled ==
    /\ [](\A t \in 1..Len(tasks) :
            /\ Due(t) => ENABLED (DeleteStep(t, TRUE) \/ PromptStep(t, TRUE))
            /\ tasks[t].done => /\ tasks[t].attempted = Len(tasks[t].message_ids)
                                /\ tasks[t].prompts = 1
            /\ tasks[t].prompts <= 1
            /\ \A j \in 1..Len(tasks[t].message_ids) :
                   delete_attempts[tasks[t].message_ids[j]] <= 1)
    /\ [][\A t \in 1..Len(tasks) :
            /\ t <= Len(tasks')
            /\ tasks'[t].message_ids = tasks[t].message_ids
            /\ tasks'[t].wake = tasks[t].wake
            /\ tasks'[t].attempted >= tasks[t].attempted
            /\ tasks'[t].prompts >= tasks[t].prompts
            /\ tasks[t].done => tasks'[t].done]_vars

\* The bundle was deleted and the visitor blocked at time 0, before the delay
\* of 5 seconds elapsed, and the coroutine has made its attempts and its prompt.
C18_Witness ==
    \E t \in 1..Len(tasks) :
        /\ tasks[t].done
        /\ now >= tasks[t].wake
        /\ files[tasks[t].file_code] = NoBundle
        /\ IsBlocked(tasks[t].chat_id)
        /\ \A j \in 1..Len(tasks[t].message_ids) :
               delete_attempts[tasks[t].message_ids[j]] = 1

(* ---------------------------------------------------------------- *)
(* Admin bypass: the main admin configures a trust-mode channel,    *)
(* stores a bundle, makes the visitor an admin and removes it       *)
(* again; the visitor opens the start link and presses the          *)
(* 'I joined' and re-download buttons, any number of times within   *)
(* one clock reading, as an admin and as an ordinary user           *)
(* ---------------------------------------------------------------- *)
BypassStep == MinDeleteSeconds * TicksPerSecond

BypassMedia == /\ Idle /\ files["c1"] = NoBundle /\ mandatory_channels["@a"] # NoChannel
               /\ handle_media(Admin, "photo")
BypassNoCaption == button_no_caption_files(Admin)
BypassDeleteTime == text_delete_time(Admin, "5", "c1", TRUE)
BypassMenuChannel == /\ Idle /\ mandatory_channels["@a"] = NoChannel
                     /\ menu_step(Admin, "channel_link")
BypassChannelLink == text_channel_link(Admin, "@a", [is_admin |-> FALSE, chat_id |-> 0])
BypassChannelButton == text_channel_button_text(Admin, "Join")
BypassAddButton == Idle /\ files["c1"] # NoBundle /\ button_add_new_admin(Admin)
BypassNewAdminId == text_new_admin_id(Admin, "2")
BypassRemove == button_removeadmin(Admin, Visitor)
BypassStart == start_command(Visitor, "c1", NoGateway, AllSent)
BypassCheck == button_check(Visitor, "c1", NoGateway, AllSent)
BypassRedownload == button_redownload(Visitor, "c1", NoGateway, AllSent)
BypassDelete == \E t \in 1..MaxDeliveries : DeleteStep(t, TRUE)
BypassPrompt == \E t \in 1..MaxDeliveries : PromptStep(t, TRUE)
BypassWait == Tick(BypassStep, BypassStep)

NextBypass ==
    \/ BypassMedia \/ BypassNoCaption \/ BypassDeleteTime
    \/ BypassMenuChannel \/ BypassChannelLink \/ BypassChannelButton
    \/ BypassAddButton \/ BypassNewAdminId \/ BypassRemove
    \/ BypassStart \/ BypassCheck \/ BypassRedownload
    \/ BypassDelete \/ BypassPrompt \/ BypassWait
SpecBypass == Init /\ [][NextBypass]_vars

EntryOps == {"start", "redownload", "check"}

\* C19: a start link, re-download press or 'I joined' press of a user who is an
\* admin when it is handled is never answered by the rate limiter and leaves
\* the user's rate-limit entry, present or absent, as it was.
C19_AdminBypass ==
    [][(last'.op \in EntryOps /\ last'.code # None /\ last'.user \in admins)
        => /\ last'.outcome \notin Refused
           /\ last'.reply \notin Refused
           /\ spam_control'[last'.user] = spam_control[last'.user]]_vars

\* The visitor, locked out by the rate limiter and then made an admin, is
\* served by the re-download button while its lockout entry is still there.
C19_Witness ==
    /\ last.op = "redownload"
    /\ last.user = Visitor
    /\ Visitor \in admins
    /\ last.delivered
    /\ spam_control[Visitor].blocked_until > now

(* ---------------------------------------------------------------- *)
(* Auto mode: the main admin configures a channel in which the bot  *)
(* is an admin and stores a bundle; the visitor opens the link and  *)
(* presses the buttons while the gateway reports any status or      *)
(* raises                                                           *)
(* ---------------------------------------------------------------- *)
AutoKey == StrOfInt[ChatOf["@a"]]
AllGwAnswers == [ChatIds -> GwStatuses]

AutoMenu == /\ Idle /\ mandatory_channels[AutoKey] = NoChannel
            /\ menu_step(Admin, "channel_link")
AutoChannelLink ==
    text_channel_link(Admin, "@a", [is_admin |-> TRUE, chat_id |-> ChatOf["@a"]])
AutoChannelButton == text_channel_button_text(Admin, "Join")
AutoMedia == Idle /\ files["c1"] = NoBundle /\ handle_media(Admin, "photo")
AutoNoCaption == button_no_caption_files(Admin)
AutoDeleteTime == text_delete_time(Admin, "5", "c1", TRUE)
AutoStart == \E gw \in AllGwAnswers :
                 Paced /\ start_command(Visitor, "c1", gw, AllSent)
AutoRedownload == \E gw \in AllGwAnswers :
                      Paced /\ button_redownload(Visitor, "c1", gw, AllSent)
AutoCheck == \E gw \in AllGwAnswers :
                 Paced /\ button_check(Visitor, "c1", gw, AllSent)
AutoDelete == \E t \in 1..MaxDeliveries : DeleteStep(t, TRUE)
AutoPrompt == \E t \in 1..MaxDeliveries : PromptStep(t, TRUE)
AutoWait == Tick(GateStep, GateWaits * GateStep)

NextAuto ==
    \/ AutoMenu \/ AutoChannelLink \/ AutoChannelButton
    \/ AutoMedia \/ AutoNoCaption \/ AutoDeleteTime
    \/ AutoStart \/ AutoRedownload \/ AutoCheck
    \/ AutoDelete \/ AutoPrompt \/ AutoWait
SpecAuto == Init /\ [][NextAuto]_vars

AutoMode(k) == k \in Configured /\ AutoVerifiable(mandatory_channels[k])

\* C20: every evaluation asks the gateway about every auto-mode requirement,
\* whatever the user's record; when the gateway reports member, administrator
\* or creator the requirement is met and the record is true afterwards; when it
\* reports any other status the requirement is unmet and the record is false
\* afterwards, also when the record was true before.
C20_AutoRecheck ==
    [][last'.evaluated =>
        \A k \in ChanKeys : AutoMode(k) =>
            /\ k \in last'.calls
            /\ k \in last'.members =>
                   /\ k \notin last'.not_joined
                   /\ user_channel_memberships'[last'.user][k] = "true"
            /\ k \notin (last'.members \cup last'.errors) =>
                   /\ k \in last'.not_joined
                   /\ user_channel_memberships'[last'.user][k] = "false"]_vars

\* A re-download press of a user whose record was true: the gateway reports a
\* status that is no membership, and the user is asked to join again.
C20_Witness ==
    /\ last.op = "redownload"
    /\ last.evaluated
    /\ AutoKey \in last.rechecked
    /\ AutoKey \notin (last.members \cup last.errors)
    /\ AutoKey \in last.not_joined
    /\ user_channel_memberships[last.user][AutoKey] = "false"

(* ---------------------------------------------------------------- *)
(* Further properties of the membership gate (SpecGate)             *)
(* ---------------------------------------------------------------- *)
\* The auto-mode requirements an evaluation reported unmet
AutoUnmet(o) == {k \in o.not_joined : AutoMode(k)}

\* C21: on the 'I joined' action, when the evaluation leaves an auto-mode
\* requirement unmet nothing is sent, scheduled or recorded; when it leaves
\* only trust-mode requirements unmet each of them is recorded as satisfied
\* for the user and, the bundle being stored, send_files_to_user is called in
\* the same request.
C21_TwoTier ==
    [][(last'.op = "check" /\ last'.evaluated) =>
        /\ AutoUnmet(last') # {} =>
               /\ ~last'.delivered
               /\ UNCHANGED sched
        /\ (AutoUnmet(last') = {} /\ last'.not_joined # {}) =>
               /\ \A k \in last'.not_joined :
                      user_channel_memberships'[last'.user][k] = "true"
               /\ files[last'.code] # NoBundle => last'.delivered]_vars

\* An 'I joined' press with a trust-mode and an auto-mode requirement unmet:
\* the trust-mode one is recorded, nothing is delivered.
C21_Witness ==
    /\ last.op = "check"
    /\ last.reply = "auto_failed"
    /\ AutoUnmet(last) # {}
    /\ last.marked # {}
    /\ ~last.delivered

(* ---------------------------------------------------------------- *)
(* No assertion: as the membership gate above, but the visitor      *)
(* never presses 'I joined'; the admin adds, removes and re-adds    *)
(* the channel while the bot is, or is not, an admin of it          *)
(* ---------------------------------------------------------------- *)
SilentMenu == Idle /\ menu_step(Admin, "channel_link")
SilentChannelLink == \E answer \in BotAdminAnswers("@a") :
                         text_channel_link(Admin, "@a", answer)
SilentChannelButton == text_channel_button_text(Admin, "Join")
SilentDelChan == \E k \in ChanKeys : button_delchan(Admin, k)
SilentMedia == Idle /\ files["c1"] = NoBundle /\ handle_media(Admin, "photo")
SilentNoCaption == button_no_caption_files(Admin)
SilentDeleteTime == text_delete_time(Admin, "5", "c1", TRUE)
SilentStart == \E gw \in GwAnswers : Paced /\ start_command(Visitor, "c1", gw, AllSent)
SilentRedownload == \E gw \in GwAnswers :
                        Paced /\ button_redownload(Visitor, "c1", gw, AllSent)
SilentDelete == \E t \in 1..MaxDeliveries : DeleteStep(t, TRUE)
SilentPrompt == \E t \in 1..MaxDeliveries : PromptStep(t, TRUE)
SilentWait == Tick(GateStep, GateWaits * GateStep)

NextSilent ==
    \/ SilentMenu \/ SilentChannelLink \/ SilentChannelButton \/ SilentDelChan
    \/ SilentMedia \/ SilentNoCaption \/ SilentDeleteTime
    \/ SilentStart \/ SilentRedownload
    \/ SilentDelete \/ SilentPrompt \/ SilentWait
SpecSilent == Init /\ [][NextSilent]_vars

\* C22: for a user who never performed the 'I joined' action, every evaluation
\* reports every trust-mode requirement unmet, whatever requirements were
\* added, removed and added again before.
C22_TrustNeedsAssertion ==
    [][last'.evaluated =>
          \A k \in ChanKeys : TrustMode(k) => k \in last'.not_joined]_vars

\* C23: a true record of a trust-mode requirement stays true in every step;
\* a record becomes false only in an evaluation for that user, in which the
\* gateway was asked about the auto-mode requirement of that key and reported
\* a status that is no membership.
C23_TrueStaysTrue ==
    [][\A u \in UserIds, k \in ChanKeys :
        /\ (TrustMode(k) /\ user_channel_memberships[u][k] = "true")
               => user_channel_memberships'[u][k] = "true"
        /\ (user_channel_memberships[u][k] # "false"
              /\ user_channel_memberships'[u][k] = "false")
               => /\ last'.evaluated /\ last'.user = u
                  /\ AutoMode(k)
                  /\ k \in last'.calls
                  /\ k \notin (last'.members \cup last'.errors)]_vars

\* An evaluation that rechecked an auto-mode requirement and set its record to
\* false while the user's asserted trust-mode record stayed true.
C23_Witness ==
    /\ last.evaluated
    /\ \E k \in ChanKeys :
          /\ TrustMode(k)
          /\ user_channel_memberships[last.user][k] = "true"
    /\ \E k \in last.rechecked :
          /\ AutoMode(k)
          /\ user_channel_memberships[last.user][k] = "false"

\* C24: an evaluation, whatever its outcome and whatever the gateway answers
\* or raises, leaves the configured requirements and every field of each as
\* they were, and changes no membership record of any other user.
C24_EvaluateFrame ==
    [][last'.evaluated =>
        /\ mandatory_channels' = mandatory_channels
        /\ \A u \in UserIds \ {last'.user} :
               user_channel_memberships'[u] = user_channel_memberships[u]]_vars

\* An evaluation during which the gateway raised for a configured requirement.
C24_Witness ==
    /\ last.evaluated
    /\ last.errors # {}
    /\ last.errors \subseteq Configured

(* ---------------------------------------------------------------- *)
(* Verification mode: Telegram makes the bot an admin of the        *)
(* channel and takes the right away again, while no wizard is under *)
(* way; the main admin adds the channel by the wizard, whose        *)
(* check_if_bot_is_admin call gets the bot's status of that moment  *)
(* or fails, or by accepting the detected channel, and removes it   *)
(* ---------------------------------------------------------------- *)
TheChat == ChatOf["@a"]

\* What check_if_bot_is_admin returns while the bot's status is as it is
StatusAnswers ==
    {[is_admin |-> FALSE, chat_id |-> 0],
     [is_admin |-> TheChat \in bot_admin_in, chat_id |-> TheChat]}

ModeStatus == \E is_admin_now \in BOOLEAN :
                  Idle /\ handle_bot_chat_member(TheChat, is_admin_now)
ModeMenu == Idle /\ menu_step(Admin, "channel_link")
ModeChannelLink == \E answer \in StatusAnswers : text_channel_link(Admin, "@a", answer)
ModeChannelButton == text_channel_button_text(Admin, "Join")
ModeAutoAdd == Idle /\ button_autoadd(Admin, TheChat)
ModeAutoButton == text_auto_channel_button_text(Admin, "Join")
ModeDelChan == \E k \in ChanKeys : button_delchan(Admin, k)
ModeCancel == button_cancel(Admin, "cancel_user_send")
ModeStart == \E c \in Codes : Paced /\ start_command(Visitor, c, NoGateway, AllSent)

NextMode ==
    \/ ModeStatus \/ ModeMenu \/ ModeChannelLink \/ ModeChannelButton
    \/ ModeAutoAdd \/ ModeAutoButton \/ ModeDelChan \/ ModeCancel \/ ModeStart
SpecMode == Init /\ [][NextMode]_vars

\* The step stores a requirement under k
Adds(k) == /\ mandatory_channels'[k] # NoChannel
           /\ mandatory_channels'[k] # mandatory_channels[k]
           /\ last'.reply = "channel_added"

\* C25: a requirement is stored in auto mode exactly when the bot is an admin
\* of its channel at the time it is added, by the channel wizard and by
\* accepting a detected channel alike, and the mode stored under a key does
\* not change while the key stays configured.
C25_ModeFixedAtAdd ==
    [][\A k \in ChanKeys :
        /\ (Adds(k) /\ mandatory_channels[k] = NoChannel) =>
               (mandatory_channels'[k].can_auto_verify
                    <=> (\E c \in bot_admin_in : StrOfInt[c] = k))
        /\ (mandatory_channels[k] # NoChannel /\ mandatory_channels'[k] # NoChannel) =>
               mandatory_channels'[k].can_auto_verify
                    = mandatory_channels[k].can_auto_verify]_vars

\* C27: the deletion coroutine is best-effort: it ends only after one
\* delete_message call for every message id of its delivery, whether or not
\* some of the calls failed, and it sends its single prompt after all of them.
C27_BestEffort ==
    \A t \in 1..Len(tasks) :
        /\ tasks[t].prompts <= 1
        /\ tasks[t].failed => tasks[t].attempted >= 1
        /\ tasks[t].prompts = 1 =>
               /\ tasks[t].attempted = Len(tasks[t].message_ids)
               /\ \A i \in 1..Len(tasks[t].message_ids) :
                      delete_attempts[tasks[t].message_ids[i]] >= 1
        /\ tasks[t].done => tasks[t].prompts = 1

\* A delete_message call of a two-message delivery failed, and the coroutine
\* made both calls and sent its prompt.
C27_Witness ==
    \E t \in 1..Len(tasks) :
        /\ Len(tasks[t].message_ids) >= 2
        /\ tasks[t].failed
        /\ tasks[t].attempted = Len(tasks[t].message_ids)
        /\ tasks[t].prompts = 1
        /\ tasks[t].done

\* C28: a send_files_to_user call whose first send raises, so that no message
\* is sent, answers with the error text, creates no deletion coroutine, leaves
\* the user's buttons as they are and appends nothing to self.downloads; and no
\* coroutine, hence no prompt, ever exists for an empty list of messages.
C28_NothingSent ==
    /\ \A t \in 1..Len(tasks) : tasks[t].message_ids # <<>>
    /\ [][(/\ Len(deliveries') = Len(deliveries) + 1
           /\ deliveries'[Len(deliveries')].message_ids = <<>>
           /\ deliveries'[Len(deliveries')].raised)
          => /\ last'.reply = "send_error"
             /\ deliveries'[Len(deliveries')].task = 0
             /\ tasks' = tasks
             /\ buttons' = buttons
             /\ downloads' = downloads
             /\ last'.recorded = 0]_vars

\* A visitor's request for a stored bundle of two items whose first send raised.
C28_Witness ==
    /\ last.delivered /\ last.reply = "send_error"
    /\ deliveries # <<>>
    /\ deliveries[Len(deliveries)].message_ids = <<>>
    /\ deliveries[Len(deliveries)].raised
    /\ files[last.code] # NoBundle
    /\ Len(files[last.code].files) >= 2

(* ---------------------------------------------------------------- *)
(* What a delivery carries: the main admin uploads photos and       *)
(* videos in any order, with or without a caption, with a delete    *)
(* time of 5 or 30 seconds; the visitor opens the link and the      *)
(* transport accepts any number of the sends                        *)
(* ---------------------------------------------------------------- *)
CarryMedia == \E file_type \in FileTypes :
                  files["c1"] = NoBundle /\ handle_media(Admin, file_type)
CarryFinish == button_finish_files(Admin)
CarryNoCaption == button_no_caption_files(Admin)
CarryCaption == text_caption_for_files(Admin, "hi")
CarryDeleteTime == \E text \in {"5", "30"} : text_delete_time(Admin, text, "c1", TRUE)
CarryStart == \E sends \in Sends : Paced /\ start_command(Visitor, "c1", NoGateway, sends)

NextCarry ==
    \/ CarryMedia \/ CarryFinish \/ CarryNoCaption \/ CarryCaption
    \/ CarryDeleteTime \/ CarryStart
SpecCarry == Init /\ [][NextCarry]_vars

\* C26: the items a delivery sends are the bundle's items in their stored
\* order; the bundle's caption goes with the first sent item and with no other;
\* and every sent item carries the expiry notice naming the bundle's delay,
\* whether or not the bundle has a caption.
C26_OrderCaptionNotice ==
    [][Len(deliveries') = Len(deliveries) + 1 =>
        LET dl == deliveries'[Len(deliveries')]
            file_group == files[dl.file_code]
        IN \A j \in 1..Len(dl.items) :
              /\ dl.items[j].file_type = file_group.files[j].file_type
              /\ dl.items[j].caption = IF j = 1 THEN file_group.caption ELSE None
              /\ dl.items[j].notice = file_group.delete_seconds]_vars

\* The steps of the upload wizard that test the pending list.
ListSteps == {"finish_files", "no_caption_files", "caption_for_files", "delete_time"}

\* C30: a photo or video of an admin leaves the pending list one item longer,
\* the earlier items where they were and the new one at the end; finish_files,
\* no_caption_files, the caption text and the delete-time text, handled while
\* the pending list is empty or absent, answer with the no-files error, leave
\* the conversation data empty and leave self.files as it is.
C30_PendingList ==
    [][\A u \in UserIds :
         /\ (last'.op = "media" /\ last'.user = u /\ is_admin(u)) =>
                LET old == user_data[u].temp_files
                    new == user_data'[u].temp_files
                IN /\ Len(new) = Len(old) + 1
                   /\ SubSeq(new, 1, Len(old)) = old
                   /\ new[Len(new)].file_type \in FileTypes
         /\ (last'.op \in ListSteps /\ last'.user = u
                 /\ user_data[u].temp_files = <<>>) =>
                /\ last'.reply = "no_files"
                /\ user_data'[u] = EmptyData
                /\ files' = files]_vars

\* The finish button pressed with nothing pending, after a bundle of a photo
\* followed by a video was stored.
C30_Witness ==
    /\ last.op = "finish_files" /\ last.reply = "no_files"
    /\ user_data[Admin] = EmptyData
    /\ files["c1"] # NoBundle
    /\ Len(files["c1"].files) >= 2
    /\ files["c1"].files[1].file_type = "photo"
    /\ files["c1"].files[2].file_type = "video"

\* The steps of the upload wizard that follow the finish button.
AfterFinish == {"caption_for_files", "delete_time"}

\* C31: the bundle the delete-time step stores holds the media the admin
\* uploaded before pressing finish, in upload order, the caption of the caption
\* step, the accepted delay and the admin's id, and leaves the admin's
\* conversation data empty: the pending list stays as it is from the finish
\* button to the delete-time step, and the step stores that list.
C31_BundleOfTheWizard ==
    [][\A u \in UserIds :
         /\ (user_data[u].awaiting \in AfterFinish
                 /\ user_data'[u].awaiting \in AfterFinish) =>
                user_data'[u].temp_files = user_data[u].temp_files
         /\ (last'.op = "delete_time" /\ last'.user = u
                 /\ last'.reply = "link_created") =>
                /\ files'[last'.code] =
                       [files |-> user_data[u].temp_files,
                        caption |-> user_data[u].caption,
                        delete_seconds |-> Decimal[last'.input],
                        admin_id |-> u]
                /\ user_data'[u] = EmptyData]_vars

(* ---------------------------------------------------------------- *)
(* Flows started inside flows: the main admin and the visitor send  *)
(* media, press menu entries, the contact button and cancel, and    *)
(* answer the wizards' questions, in any order                      *)
(* ---------------------------------------------------------------- *)
FlowMedia == \E u \in UserIds : handle_media(u, "photo")
FlowFinish == button_finish_files(Admin)
FlowNoCaption == button_no_caption_files(Admin)
FlowCaption == text_caption_for_files(Admin, "hi")
FlowDeleteTime == text_delete_time(Admin, "5", "c1", TRUE)
FlowMenu == \E step \in {"channel_link", "block_user_id"} : menu_step(Admin, step)
FlowChannelLink == text_channel_link(Admin, "@a", [is_admin |-> FALSE, chat_id |-> 0])
FlowChannelButton == text_channel_button_text(Admin, "Join")
FlowContact == \E u \in UserIds : button_contact_admin(u)
FlowContactText == \E u \in UserIds : text_user_content_to_admin(u)
FlowCancel == \E u \in UserIds : button_cancel(u, "cancel_user_send")

NextFlow ==
    \/ FlowMedia \/ FlowFinish \/ FlowNoCaption \/ FlowCaption \/ FlowDeleteTime
    \/ FlowMenu \/ FlowChannelLink \/ FlowChannelButton
    \/ FlowContact \/ FlowContactText \/ FlowCancel
SpecFlow == Init /\ [][NextFlow]_vars

\* The values of 'awaiting' while media are pending: none while the admin is
\* still uploading, then the caption and the delete-time step.
UploadSteps == {None, "caption_for_files", "delete_time"}

\* C32: a user's conversation data hold only what the awaited step uses:
\* pending media only in the upload steps, a pending channel only at the
\* button-text step, a pending target user only at the message step, a pending
\* contact file only at the contact-caption step; so a flow started inside
\* another leaves nothing of the earlier one behind.
C32_StepPayload ==
    \A u \in UserIds :
        LET d == user_data[u] IN
        /\ d.temp_files # <<>> => d.awaiting \in UploadSteps
        /\ d.temp_channel # NoChannel => d.awaiting = "channel_button_text"
        /\ d.target_user_id # 0 => d.awaiting = "pm_message"
        /\ d.temp_user_file # None => d.awaiting = "user_caption_to_admin"

(* ---------------------------------------------------------------- *)
(* Inputs of the id and link steps: the main admin opens the        *)
(* message, block, new-admin and channel wizards and answers with   *)
(* numbers, ids of known and unknown users, and plain words, while  *)
(* the visitor may or may not have started the bot                  *)
(* ---------------------------------------------------------------- *)
IdTexts == {"soon", "9", "1", "2", "1_0"}
LinkTexts == {"soon", "9", "@a"}

InputStart == \E u \in UserIds : start_command(u, None, NoGateway, AllSent)
InputMenu == \E step \in {"channel_link", "block_user_id", "target_user_id"} :
                 Idle /\ menu_step(Admin, step)
InputAddButton == Idle /\ button_add_new_admin(Admin)
InputTarget == \E text \in IdTexts : text_target_user_id(Admin, text)
InputMessage == \E ok \in BOOLEAN : text_pm_message(Admin, ok)
InputBlock == \E text \in IdTexts : text_block_user_id(Admin, text)
InputUnblock == \E u \in UserIds : button_unblock(Admin, u)
InputNewAdmin == \E text \in IdTexts : text_new_admin_id(Admin, text)
InputRemove == button_removeadmin(Admin, Visitor)
InputChannelLink == \E text \in LinkTexts :
                        text_channel_link(Admin, text, [is_admin |-> FALSE, chat_id |-> 0])
InputChannelButton == text_channel_button_text(Admin, "Join")
InputCancel == button_cancel(Admin, "cancel_user_send")

NextInput ==
    \/ InputStart \/ InputMenu \/ InputAddButton \/ InputTarget \/ InputMessage
    \/ InputBlock \/ InputUnblock \/ InputNewAdmin \/ InputRemove
    \/ InputChannelLink \/ InputChannelButton \/ InputCancel
SpecInput == Init /\ [][NextInput]_vars

\* The text is no number for int(), or the number of no known user.
NoKnownUser(text) == text \notin DOMAIN IntOfText \/ ~InUsers(IntOfText[text])

\* The text is no number for int(), or the id of an admin.
NoNewAdmin(text) == text \notin DOMAIN IntOfText \/ IntOfText[text] \in admins

PairHorizon == 2 * TicksPerSecond

PairMenu == /\ Idle /\ mandatory_channels["@a"] = NoChannel
            /\ menu_step(Admin, "channel_link")
PairChannelLink == text_channel_link(Admin, "@a", [is_admin |-> FALSE, chat_id |-> 0])
PairChannelButton == text_channel_button_text(Admin, "Join")
PairUpload == /\ Idle /\ mandatory_channels["@a"] # NoChannel /\ files["c1"] = NoBundle
              /\ handle_media(Admin, "photo")
PairNoCaption == button_no_caption_files(Admin)
PairDeleteTime == text_delete_time(Admin, "5", "c1", TRUE)
PairMedia == handle_media(Visitor, "photo")
PairContact == \E u \in UserIds : button_contact_admin(u)
PairContactText == \E u \in UserIds : text_user_content_to_admin(u)
PairCancel == \E u \in UserIds : button_cancel(u, "cancel_user_send")
PairStart == \E u \in UserIds : start_command(u, "c1", NoGateway, AllSent)
PairCheck == \E u \in UserIds : button_check(u, "c1", NoGateway, AllSent)
PairTick == Tick(TicksPerSecond, PairHorizon)

NextPair ==
    \/ PairMenu \/ PairChannelLink \/ PairChannelButton
    \/ PairUpload \/ PairNoCaption \/ PairDeleteTime \/ PairMedia
    \/ PairContact \/ PairContactText \/ PairCancel
    \/ PairStart \/ PairCheck \/ PairTick
SpecPair == Init /\ [][NextPair]_vars

\* The awaited step and the payload of a conversation: all of context.user_data.
Conversation(d) == [d EXCEPT !.shares = {}]

\* C35: a step that handles an event of one user leaves the conversation, the
\* spam_control entry and the membership records of every other user as they
\* were.
C35_PerUser ==
    [][\A a \in UserIds, b \in UserIds :
         (a # b /\ last'.user = a) =>
            /\ Conversation(user_data'[b]) = Conversation(user_data[b])
            /\ spam_control'[b] = spam_control[b]
            /\ user_channel_memberships'[b] = user_channel_memberships[b]]_vars

\* The visitor throttled while the main admin, who has pressed 'I joined'
\* before, is in the contact flow; both have a membership record.
C35_Witness ==
    /\ last.user = Visitor /\ last.outcome = "throttled"
    /\ user_data[Admin].awaiting = "user_content_to_admin"
    /\ \E k \in ChanKeys : user_channel_memberships[Admin][k] = "true"
    /\ \E k \in ChanKeys : user_channel_memberships[Visitor][k] = "true"

(* ---------------------------------------------------------------- *)
(* Assertions that are refused: the main admin adds a trust-mode    *)
(* and an auto-mode channel and then uploads a bundle, which it may *)
(* delete; the visitor opens the link and presses 'I joined'        *)
(* ---------------------------------------------------------------- *)
TrustAnswer == [is_admin |-> FALSE, chat_id |-> 0]
AutoAnswer == [is_admin |-> TRUE, chat_id |-> ChatOf["@a"]]

AssertMenu == /\ Idle /\ mandatory_channels[AutoKey] = NoChannel
              /\ menu_step(Admin, "channel_link")
AssertChannelLink ==
    text_channel_link(Admin, "@a",
                      IF mandatory_channels["@a"] = NoChannel THEN TrustAnswer
                      ELSE AutoAnswer)
AssertChannelButton == text_channel_button_text(Admin, "Join")
AssertMedia == /\ Idle /\ mandatory_channels[AutoKey] # NoChannel
               /\ files["c1"] = NoBundle /\ downloads = <<>> /\ buttons[Visitor] = {}
               /\ handle_media(Admin, "photo")
AssertNoCaption == button_no_caption_files(Admin)
AssertDeleteTime == text_delete_time(Admin, "5", "c1", TRUE)
AssertDelFile == button_delfile(Admin, "c1")
AssertStart == \E gw \in GwAnswers : Paced /\ start_command(Visitor, "c1", gw, AllSent)
AssertCheck == \E gw \in GwAnswers : Paced /\ button_check(Visitor, "c1", gw, AllSent)
AssertDelete == \E t \in 1..MaxDeliveries : DeleteStep(t, TRUE)
AssertPrompt == \E t \in 1..MaxDeliveries : PromptStep(t, TRUE)
AssertWait == Tick(GateStep, GateWaits * GateStep)

NextAssert ==
    \/ AssertMenu \/ AssertChannelLink \/ AssertChannelButton
    \/ AssertMedia \/ AssertNoCaption \/ AssertDeleteTime \/ AssertDelFile
    \/ AssertStart \/ AssertCheck \/ AssertDelete \/ AssertPrompt \/ AssertWait
SpecAssert == Init /\ [][NextAssert]_vars

\* C38: an 'I joined' press that is refused, because an auto-mode requirement
\* is unmet or because no bundle is stored under its code, sends and schedules
\* nothing and still leaves the user's record true for every trust-mode
\* requirement its evaluation found unmet; and an evaluation that finds such a
\* record true does not report the requirement unmet.
C38_RefusedAssertionRecorded ==
    [][\A u \in UserIds :
         /\ (/\ last'.op = "check" /\ last'.user = u /\ last'.evaluated
             /\ AutoUnmet(last') # {} \/ files[last'.code] = NoBundle) =>
                /\ ~last'.delivered
                /\ UNCHANGED sched
                /\ \A k \in last'.not_joined :
                       TrustMode(k) => user_channel_memberships'[u][k] = "true"
         /\ (last'.user = u /\ last'.evaluated) =>
                \A k \in ChanKeys :
                    (TrustMode(k) /\ user_channel_memberships[u][k] = "true")
                        => k \notin last'.not_joined]_vars

\* The start link opened by a visitor to whom nothing was ever sent: the
\* trust-mode requirement is met by the record of a refused 'I joined' press,
\* the auto-mode requirement is unmet.
C38_Witness ==
    /\ last.op = "start" /\ last.user = Visitor /\ last.evaluated
    /\ deliveries = <<>>
    /\ TrustMode("@a") /\ "@a" \notin last.not_joined
    /\ user_channel_memberships[Visitor]["@a"] = "true"
    /\ AutoUnmet(last) # {}

(* ---------------------------------------------------------------- *)
(* Overlapping deliveries: the main admin uploads two bundles; the  *)
(* admin and the visitor open their links, also at the same moment; *)
(* the deletion coroutines run their steps in any order, and a      *)
(* deletion or a prompt may fail                                    *)
(* ---------------------------------------------------------------- *)
\* The first bundle has up to two photos, the second one photo.
OverlapMedia == /\ files["c2"] = NoBundle /\ user_data[Admin].awaiting = None
                /\ Len(user_data[Admin].temp_files)
                       < (IF files["c1"] = NoBundle THEN 2 ELSE 1)
                /\ handle_media(Admin, "photo")
OverlapNoCaption == button_no_caption_files(Admin)
OverlapDeleteTime ==
    text_delete_time(Admin, "5", IF files["c1"] = NoBundle THEN "c1" ELSE "c2", TRUE)
OverlapStart == \E u \in UserIds, c \in {"c1", "c2"} :
                    /\ files["c2"] # NoBundle
                    /\ u = Visitor => Paced
                    /\ start_command(u, c, NoGateway, AllSent)
OverlapDelete == \E t \in 1..MaxDeliveries, ok \in BOOLEAN : DeleteStep(t, ok)
OverlapPrompt == \E t \in 1..MaxDeliveries, ok \in BOOLEAN : PromptStep(t, ok)
OverlapWait == Tick(GateStep, GateStep)

NextOverlap ==
    \/ OverlapMedia \/ OverlapNoCaption \/ OverlapDeleteTime
    \/ OverlapStart \/ OverlapDelete \/ OverlapPrompt \/ OverlapWait
SpecOverlap == Init /\ [][NextOverlap]_vars

\* C39: every delivery that sent its bundle has a deletion coroutine of its
\* own, for its chat, its code and exactly the message ids it sent; a message
\* has been attempted once if its own coroutine has come to it and not at all
\* otherwise, whatever the other coroutines have done; each coroutine sends at
\* most one prompt, and exactly one by the time it ends; and a deletion step
\* advances one coroutine and touches one message of that coroutine.
C39_IndependentDeliveries ==
    /\ [](\A i \in Calls :
            Complete(deliveries[i]) =>
                LET dl == deliveries[i]
                    t == tasks[dl.task]
                IN /\ t.message_ids = dl.message_ids
                   /\ t.chat_id = dl.user_id
                   /\ t.file_code = dl.file_code
                   /\ \A j \in Calls : (j # i /\ Complete(deliveries[j])) =>
                          /\ deliveries[j].task # dl.task
                          /\ Range(deliveries[j].message_ids) \cap Range(dl.message_ids) = {}
                   /\ \A n \in 1..Len(dl.message_ids) :
                          delete_attempts[dl.message_ids[n]]
                              = IF n <= t.attempted THEN 1 ELSE 0
                   /\ t.prompts <= 1
                   /\ t.done => t.prompts = 1)
    /\ [][delete_attempts' # delete_attempts =>
            \E t \in 1..Len(tasks) :
                /\ tasks'[t].attempted = tasks[t].attempted + 1
                /\ \A o \in 1..Len(tasks) : o # t => tasks'[o] = tasks[o]
                /\ \A m \in MessageIds :
                       delete_attempts'[m] # delete_attempts[m] =>
                           m = tasks[t].message_ids[tasks'[t].attempted]]_vars

\* Two bundles opened at the same moment by the two users, both coroutines
\* ended, one of them after a failed deletion.
C39_Witness ==
    /\ Len(deliveries) = 2
    /\ Complete(deliveries[1]) /\ Complete(deliveries[2])
    /\ deliveries[1].user_id # deliveries[2].user_id
    /\ deliveries[1].file_code # deliveries[2].file_code
    /\ deliveries[1].at = deliveries[2].at
    /\ tasks[1].done /\ tasks[2].done
    /\ tasks[1].failed /\ ~tasks[2].failed

(* ---------------------------------------------------------------- *)
(* Broadcast: an admin starting a broadcast while users open the    *)
(* bot for the first time and the admin blocks and unblocks them    *)
(* ---------------------------------------------------------------- *)
CastStart == \E u \in UserIds : start_command(u, None, NoGateway, AllSent)
CastMenu == \E step \in {"broadcast_message", "block_user_id"} :
                Idle /\ menu_step(Admin, step)
CastText == text_broadcast_message(Admin)
CastBlock == \E text \in {"1", "2"} : text_block_user_id(Admin, text)
CastUnblock == \E u \in UserIds : button_unblock(Admin, u)
CastRun == \E b \in 1..MaxBroadcasts :
               \E order \in UNION {Orders(keys) : keys \in SUBSET UserIds} :
                   broadcast_message(b, order)

NextCast ==
    \/ CastStart \/ CastMenu \/ CastText \/ CastBlock \/ CastUnblock \/ CastRun
SpecCast == Init /\ [][NextCast]_vars

\* C40: a broadcast makes at most one report to the admin who started it and
\* never a send to a user who is blocked when the loop reaches them, and a
\* broadcast that has ended has made that one report and has reached every
\* user the bot knew when its loop began: each of them was either sent the
\* message or passed over as blocked.
C40_BroadcastReport ==
    \A b \in 1..Len(casts) :
        LET c == casts[b] IN
        /\ c.reports <= 1
        /\ c.attempted \cap c.skipped = {}
        /\ c.ended =>
               /\ c.reports = 1
               /\ c.attempted \cup c.skipped = {c.order[i] : i \in DOMAIN c.order}

\* A broadcast has ended by the RuntimeError of the dict iterator: it sent
\* the message to the one user known when it began, another user opened the
\* bot for the first time during the sleep, and no report was made.
C40_IteratorRaised ==
    /\ Len(casts) = 1
    /\ casts[1].ended /\ casts[1].raised
    /\ casts[1].attempted = {Admin}
    /\ casts[1].reports = 0
    /\ users[Visitor].known

====
